---------------------------- MODULE Spec2Model ----------------------------
(***************************************************************************)
(* Octave Resource Protocol client (SierraWireless/octave-orp, C client).  *)
(* A model of the HDLC framer/deframer (hdlc.c), the ORP codec             *)
(* (orpProtocol.c), the client receive/transmit pipeline (orpClient.c)     *)
(* and the file-transfer helper (orpFile.c).                               *)
(*                                                                         *)
(* Bytes are integers 0..255; buffers are sequences of bytes; C strings    *)
(* are sequences of bytes without the terminating NUL.                     *)
(***************************************************************************)
EXTENDS Integers, Sequences, FiniteSets, TLC

(***************************************************************************)
(* Bounds of the model.                                                    *)
(***************************************************************************)
\* longest payload handed to the framer in SpecHdlc
MaxLen == 3

\* bytes the payloads are drawn from: NUL, ']', '^', ESC, FLAG
ByteSet == {0, 93, 94, 125, 126}

(***************************************************************************)
(* Bit operations on unsigned integers of a fixed width.                   *)
(***************************************************************************)
RECURSIVE XorN(_, _, _)
XorN(a, b, n) ==
    IF n = 0 THEN 0
    ELSE (((a % 2) + (b % 2)) % 2) + (2 * XorN(a \div 2, b \div 2, n - 1))

Xor16(a, b) == XorN(a, b, 16)

Xor8(a, b) == XorN(a, b, 8)

(***************************************************************************)
(* Sequence helpers.                                                       *)
(***************************************************************************)
Take(s, n) == SubSeq(s, 1, n)

Drop(s, n) == SubSeq(s, n + 1, Len(s))

SeqsUpTo(S, n) == UNION {[1..k -> S] : k \in 0..n}

(***************************************************************************)
(* CRC-16/CCITT (hdlc.c).                                                  *)
(***************************************************************************)
CRC_CRC16_CCITT_INIT == 65535

CRC_POLY_CCITT == 4129

\* the inner loop of init_crcccitt_tab for one table entry (uint16_t arithmetic)
RECURSIVE crc_tab_entry(_, _, _)
crc_tab_entry(crc, c, j) ==
    IF j = 8 THEN crc
    ELSE LET shifted == (crc * 2) % 65536
             next == IF Xor16(crc, c) \div 32768 = 1
                     THEN Xor16(shifted, CRC_POLY_CCITT)
                     ELSE shifted
         IN  crc_tab_entry(next, (c * 2) % 65536, j + 1)

crc_tabccitt == [i \in 0..255 |-> crc_tab_entry(0, i * 256, 0)]

\* A faulty lookup: the table is indexed by the low byte of the crc.
crc_ccitt_update_LowIndex(crc, c) ==
    Xor16((crc * 256) % 65536, crc_tabccitt[Xor16(crc % 256, c) % 256])

crc_ccitt_update(crc, c) ==
    Xor16((crc * 256) % 65536, crc_tabccitt[Xor16(crc \div 256, c) % 256])

(***************************************************************************)
(* HDLC framing (hdlc.c).  A context is the record hdlc_context_t; crcbuf  *)
(* is a 2-element sequence, C index i being element i + 1.                 *)
(***************************************************************************)
HDLC_FRAME_OCTET == 126

HDLC_ESC_OCTET == 125

HDLC_ESC_MASK == 32

\* C indices into crcbuf
HDLC_FRAM_CRC_LSB == 0

HDLC_FRAM_CRC_MSB == 1

HDLC_ERROR_CRC == -2

HDLC_ERROR_FRAME == -3

HDLC_OVERHEAD_BYTES_COUNT == 6

hdlc_Init ==
    [state |-> "HDLC_INIT", count |-> 0, crc |-> CRC_CRC16_CCITT_INIT,
     crcbuf |-> <<0, 0>>]

\* The switch of hdlc_Unpack for one input byte: the new state, crc and
\* count, the (possibly unescaped) data byte and the error code put into
\* dst_idx (0: none).
UnpackSwitch(h, data) ==
    LET st == IF h.state = "HDLC_INIT" THEN "UNPACK_SOF_SEARCH" ELSE h.state
        h1 == IF h.state = "HDLC_INIT"
              THEN [h EXCEPT !.state = "UNPACK_SOF_SEARCH",
                             !.crc = CRC_CRC16_CCITT_INIT, !.count = 0]
              ELSE h
    IN  CASE st = "UNPACK_SOF_SEARCH" ->
               [ctx |-> IF data = HDLC_FRAME_OCTET
                        THEN [h1 EXCEPT !.state = "UNPACK_SOF_FOUND"] ELSE h1,
                data |-> data, err |-> 0]
          [] st = "UNPACK_SOF_FOUND" ->
               [ctx |-> IF data = HDLC_FRAME_OCTET THEN h1
                        ELSE IF data = HDLC_ESC_OCTET
                        THEN [h1 EXCEPT !.state = "UNPACK_ESCAPED"]
                        ELSE [h1 EXCEPT !.state = "UNPACK_DATA"],
                data |-> data, err |-> 0]
          [] st = "UNPACK_DATA" ->
               IF data = HDLC_FRAME_OCTET
               THEN LET sndrcrc == (h1.crcbuf[HDLC_FRAM_CRC_MSB + 1] * 256)
                                   + h1.crcbuf[HDLC_FRAM_CRC_LSB + 1]
                    IN  [ctx |-> [h1 EXCEPT !.state = "HDLC_INIT"],
                         data |-> data,
                         err |-> IF h1.crc # sndrcrc THEN HDLC_ERROR_CRC ELSE 0]
               ELSE IF data = HDLC_ESC_OCTET
               THEN [ctx |-> [h1 EXCEPT !.state = "UNPACK_ESCAPED"],
                     data |-> data, err |-> 0]
               ELSE [ctx |-> h1, data |-> data, err |-> 0]
          [] st = "UNPACK_ESCAPED" ->
               IF data = HDLC_ESC_OCTET \/ data = HDLC_FRAME_OCTET
               THEN [ctx |-> [h1 EXCEPT !.state = "HDLC_INIT"],
                     data |-> data, err |-> HDLC_ERROR_FRAME]
               ELSE [ctx |-> [h1 EXCEPT !.state = "UNPACK_DATA"],
                     data |-> Xor8(data, HDLC_ESC_MASK), err |-> 0]

\* A faulty emission that lets a byte through as soon as one is buffered.
UnpackEmit_Window1(h, data) ==
    LET old == h.crcbuf[HDLC_FRAM_CRC_MSB + 1]
        out == IF h.count > 0 THEN <<old>> ELSE <<>>
        crc == IF h.count > 0 THEN crc_ccitt_update(h.crc, old) ELSE h.crc
    IN  [ctx |-> [h EXCEPT !.crc = crc,
                           !.crcbuf = <<data, h.crcbuf[HDLC_FRAM_CRC_LSB + 1]>>,
                           !.count = h.count + 1],
         out |-> out]

\* The windowed emission at the end of the loop body of hdlc_Unpack: with
\* more than one byte buffered the older one goes to dest and into the crc.
UnpackEmit(h, data) ==
    LET old == h.crcbuf[HDLC_FRAM_CRC_MSB + 1]
        out == IF h.count > 1 THEN <<old>> ELSE <<>>
        crc == IF h.count > 1 THEN crc_ccitt_update(h.crc, old) ELSE h.crc
    IN  [ctx |-> [h EXCEPT !.crc = crc,
                           !.crcbuf = <<data, h.crcbuf[HDLC_FRAM_CRC_LSB + 1]>>,
                           !.count = h.count + 1],
         out |-> out]

\* The while loop of hdlc_Unpack.  dest holds the bytes written to the
\* destination in this call, dst_idx is the C variable (an error code once
\* an error is found).
RECURSIVE UnpackLoop(_, _, _, _, _, _)
UnpackLoop(h, dest, dst_idx, destlen, src, src_idx) ==
    IF ~(src_idx < Len(src) /\ dst_idx < destlen)
    THEN [ctx |-> h, dest |-> dest, ret |-> dst_idx, srclen |-> src_idx]
    ELSE LET sw == UnpackSwitch(h, src[src_idx + 1])
             em == IF sw.ctx.state = "UNPACK_DATA"
                   THEN UnpackEmit(sw.ctx, sw.data)
                   ELSE [ctx |-> sw.ctx, out |-> <<>>]
             d1 == IF sw.err # 0 THEN sw.err ELSE dst_idx + Len(em.out)
         IN  IF em.ctx.state = "HDLC_INIT"
             THEN [ctx |-> em.ctx, dest |-> dest \o em.out, ret |-> d1,
                   srclen |-> src_idx + 1]
             ELSE UnpackLoop(em.ctx, dest \o em.out, d1, destlen, src,
                             src_idx + 1)

\* A faulty deframer that restarts the two-byte window at every call.
hdlc_Unpack_Restart(h, destlen, src) ==
    UnpackLoop([h EXCEPT !.count = 0], <<>>, 0, destlen, src, 0)

\* A faulty deframer that takes a frame octet at the start of a call, after a
\* frame octet, for the end of a frame.
hdlc_Unpack_FlagEnds(h, destlen, src) ==
    IF h.state = "UNPACK_SOF_FOUND" /\ src # <<>> /\ src[1] = HDLC_FRAME_OCTET
    THEN [ctx |-> hdlc_Init, dest |-> <<>>, ret |-> 0, srclen |-> 1]
    ELSE UnpackLoop(h, <<>>, 0, destlen, src, 0)

\* A faulty deframer that does not search for the start of a frame.
hdlc_Unpack_NoSearch(h, destlen, src) ==
    UnpackLoop(IF h.state = "HDLC_INIT"
               THEN [h EXCEPT !.state = "UNPACK_SOF_FOUND",
                              !.crc = CRC_CRC16_CCITT_INIT, !.count = 0]
               ELSE h,
               <<>>, 0, destlen, src, 0)

\* A faulty deframer that reports a framing error without going back to
\* HDLC_INIT.
ErrorStays(r) ==
    IF r.ret = HDLC_ERROR_FRAME
    THEN [r EXCEPT !.ctx = [r.ctx EXCEPT !.state = "UNPACK_SOF_FOUND"]]
    ELSE r

hdlc_Unpack_ErrorStays(h, destlen, src) ==
    ErrorStays(UnpackLoop(h, <<>>, 0, destlen, src, 0))

\* hdlc_Unpack(hdlc, dest, destlen, src, &srclen): the context afterwards,
\* the bytes written to dest, the return value and srclen on return.
hdlc_Unpack(h, destlen, src) == UnpackLoop(h, <<>>, 0, destlen, src, 0)

hdlc_UnpackDone(h) == h.state = "HDLC_INIT"

\* The for loop of hdlc_Pack.
RECURSIVE PackLoop(_, _, _, _, _)
PackLoop(h, dest, destlen, src, src_idx) ==
    IF ~(src_idx < Len(src) /\ Len(dest) < destlen)
    THEN [ctx |-> h, dest |-> dest, ret |-> Len(dest), srclen |-> src_idx]
    ELSE LET b == src[src_idx + 1]
         IN  CASE h.state = "PACK_START" ->
                    PackLoop([h EXCEPT !.state = "PACK_DATA"],
                             Append(dest, HDLC_FRAME_OCTET), destlen, src, src_idx)
               [] h.state = "PACK_DATA" ->
                    LET h1 == [h EXCEPT !.crc = crc_ccitt_update(h.crc, b)]
                    IN  IF b = HDLC_FRAME_OCTET \/ b = HDLC_ESC_OCTET
                        THEN PackLoop([h1 EXCEPT !.state = "PACK_ESCAPED"],
                                      Append(dest, HDLC_ESC_OCTET), destlen, src,
                                      src_idx)
                        ELSE PackLoop(h1, Append(dest, b), destlen, src,
                                      src_idx + 1)
               [] h.state = "PACK_ESCAPED" ->
                    PackLoop([h EXCEPT !.state = "PACK_DATA"],
                             Append(dest, Xor8(b, HDLC_ESC_MASK)), destlen, src,
                             src_idx + 1)

\* A faulty framer that forgets, between two calls, that an ESC was written.
hdlc_Pack_ForgetEscape(h, destlen, src) ==
    PackLoop(IF h.state = "HDLC_INIT" THEN [h EXCEPT !.state = "PACK_START"]
             ELSE IF h.state = "PACK_ESCAPED" THEN [h EXCEPT !.state = "PACK_DATA"]
             ELSE h,
             <<>>, destlen, src, 0)

\* hdlc_Pack(hdlc, dest, destlen, src, &srclen)
hdlc_Pack(h, destlen, src) ==
    PackLoop(IF h.state = "HDLC_INIT" THEN [h EXCEPT !.state = "PACK_START"] ELSE h,
             <<>>, destlen, src, 0)

\* hdlc_PackFinalize(hdlc, dest, destlen): ret is -1 when the closing flag
\* does not fit.
\* A faulty finalize that hands the crc to hdlc_Pack low byte first.
hdlc_PackFinalize_LowFirst(h, destlen) ==
    LET h1 == [h EXCEPT !.crcbuf = <<h.crc % 256, h.crc \div 256>>]
        r  == hdlc_Pack(h1, destlen, h1.crcbuf)
    IN  IF destlen - r.ret # 0
        THEN [ctx |-> r.ctx, dest |-> Append(r.dest, HDLC_FRAME_OCTET),
              ret |-> r.ret + 1]
        ELSE [ctx |-> r.ctx, dest |-> r.dest, ret |-> -1]

\* A faulty finalize that writes the two crc bytes as they are.
hdlc_PackFinalize_RawCrc(h, destlen) ==
    IF destlen < 3 THEN [ctx |-> h, dest |-> <<>>, ret |-> -1]
    ELSE [ctx |-> [h EXCEPT !.crcbuf = <<h.crc \div 256, h.crc % 256>>],
          dest |-> (IF h.state = "PACK_DATA" THEN <<>> ELSE <<HDLC_FRAME_OCTET>>)
                   \o <<h.crc \div 256, h.crc % 256, HDLC_FRAME_OCTET>>,
          ret |-> IF h.state = "PACK_DATA" THEN 3 ELSE 4]

hdlc_PackFinalize(h, destlen) ==
    LET h1 == [h EXCEPT !.crcbuf = <<h.crc \div 256, h.crc % 256>>]
        r  == hdlc_Pack(h1, destlen, h1.crcbuf)
    IN  IF destlen - r.ret # 0
        THEN [ctx |-> r.ctx, dest |-> Append(r.dest, HDLC_FRAME_OCTET),
              ret |-> r.ret + 1]
        ELSE [ctx |-> r.ctx, dest |-> r.dest, ret |-> -1]


(***************************************************************************)
(* AT framing (at.c).                                                      *)
(***************************************************************************)
\* "AT+ORP=\""
at_prefix == <<65, 84, 43, 79, 82, 80, 61, 34>>

\* "\"\n"
at_suffix == <<34, 10>>

\* A faulty at_Pack that copies the sequence number bytes.
at_Pack_KeepSeq(destlen, src, srclen) ==
    IF destlen < (srclen + Len(at_prefix)) + Len(at_suffix)
    THEN [ret |-> -1, dest |-> <<>>]
    ELSE [ret |-> (Len(at_prefix) + srclen) + Len(at_suffix),
          dest |-> at_prefix
                   \o <<src[1], IF src[2] # 0 THEN src[2] ELSE 48, src[3], src[4]>>
                   \o SubSeq(src, 5, srclen)
                   \o at_suffix]

\* at_Pack of the srclen bytes of src: the C return value and the bytes of
\* dest up to it.  The four fixed bytes are written whatever srclen is.
at_Pack(destlen, src, srclen) ==
    IF destlen < (srclen + Len(at_prefix)) + Len(at_suffix)
    THEN [ret |-> -1, dest |-> <<>>]
    ELSE [ret |-> ((Len(at_prefix) + 4) + (IF srclen > 4 THEN srclen - 4 ELSE 0))
                  + Len(at_suffix),
          dest |-> at_prefix
                   \o <<src[1], IF src[2] # 0 THEN src[2] ELSE 48, 48, 48>>
                   \o SubSeq(src, 5, srclen)
                   \o at_suffix]

(***************************************************************************)
(* ORP packet bytes (orpProtocol.c): characters are their ASCII codes.      *)
(***************************************************************************)
ORP_PKT_RQST_INPUT_CREATE == 73

ORP_PKT_RESP_INPUT_CREATE == 105

ORP_PKT_RQST_OUTPUT_CREATE == 79

ORP_PKT_RESP_OUTPUT_CREATE == 111

ORP_PKT_RQST_DELETE == 68

ORP_PKT_RESP_DELETE == 100

ORP_PKT_RQST_HANDLER_ADD == 72

ORP_PKT_RESP_HANDLER_ADD == 104

ORP_PKT_RQST_HANDLER_REMOVE == 75

ORP_PKT_RESP_HANDLER_REMOVE == 107

ORP_PKT_RQST_PUSH == 80

ORP_PKT_RESP_PUSH == 112

ORP_PKT_RQST_GET == 71

ORP_PKT_RESP_GET == 103

ORP_PKT_RQST_EXAMPLE_SET == 69

ORP_PKT_RESP_EXAMPLE_SET == 101

ORP_PKT_RQST_SENSOR_CREATE == 83

ORP_PKT_RESP_SENSOR_CREATE == 115

ORP_PKT_RQST_SENSOR_REMOVE == 82

ORP_PKT_RESP_SENSOR_REMOVE == 114

ORP_PKT_NTFY_HANDLER_CALL == 99

ORP_PKT_RESP_HANDLER_CALL == 67

ORP_PKT_NTFY_SENSOR_CALL == 98

ORP_PKT_RESP_SENSOR_CALL == 66

ORP_PKT_SYNC_SYN == 89

ORP_PKT_SYNC_SYNACK == 121

ORP_PKT_SYNC_ACK == 122

ORP_PKT_RQST_FILE_DATA == 84

ORP_PKT_RESP_FILE_DATA == 116

ORP_PKT_NTFY_FILE_CONTROL == 76

ORP_PKT_RESP_FILE_CONTROL == 108

ORP_PKT_RESP_UNKNOWN_RQST == 63

ORP_VARLENGTH_SEPARATOR == 44

ORP_FIELD_ID_PATH == 80

ORP_FIELD_ID_TIME == 84

ORP_FIELD_ID_UNITS == 85

ORP_FIELD_ID_DATA == 68

ORP_FIELD_ID_RECV_COUNT == 82

ORP_FIELD_ID_SENT_COUNT == 83

ORP_FIELD_ID_MTU == 77

ORP_DATA_TYPE_TRIGGER == 84

ORP_DATA_TYPE_BOOLEAN == 66

ORP_DATA_TYPE_NUMERIC == 78

ORP_DATA_TYPE_STRING == 83

ORP_DATA_TYPE_JSON == 74

ORP_DATA_TYPE_UNDEF == 32

ORP_PACKET_LEN_MIN == 4

ORP_MASK_NONE == 0

ORP_MASK_DATA_TYPE == 2

ORP_MASK_TIME == 16

ORP_MASK_PATH == 32

ORP_MASK_DATA == 64

ORP_MASK_STATUS == 512

ORP_MASK_VERSION == 1024

ORP_MASK_EVENT == 2048

ORP_RESP_STATUS_OK == 64

\* Offsets of the fixed fields, first version of the file; the second
\* version uses them without defining them.
ORP_OFFSET_PACKET_TYPE == 0

ORP_OFFSET_DATA_TYPE == 1

ORP_OFFSET_SEQ_NUM == 2

ORP_OFFSET_VARLENGTH == 4

ORP_OFFSET_STATUS == 1

ORP_OFFSET_VERSION == 1

(***************************************************************************)
(* Packet types, data types, versions and limits (orpProtocol.h).          *)
(***************************************************************************)
ORP_PROTOCOL_V1 == 0

ORP_PROTOCOL_V2 == 1

ORP_RESPONSE_MASK == 128

ORP_PACKET_TYPE_UNKNOWN == 0

ORP_RQST_INPUT_CREATE == 1

ORP_RESP_INPUT_CREATE == 129

ORP_RQST_OUTPUT_CREATE == 2

ORP_RESP_OUTPUT_CREATE == 130

ORP_RQST_DELETE == 3

ORP_RESP_DELETE == 131

ORP_RQST_HANDLER_ADD == 4

ORP_RESP_HANDLER_ADD == 132

ORP_RQST_HANDLER_REM == 5

ORP_RESP_HANDLER_REM == 133

ORP_RQST_PUSH == 6

ORP_RESP_PUSH == 134

ORP_RQST_GET == 7

ORP_RESP_GET == 135

ORP_RQST_EXAMPLE_SET == 8

ORP_RESP_EXAMPLE_SET == 136

ORP_RQST_SENSOR_CREATE == 9

ORP_RESP_SENSOR_CREATE == 137

ORP_RQST_SENSOR_REMOVE == 10

ORP_RESP_SENSOR_REMOVE == 138

ORP_NTFY_HANDLER_CALL == 11

ORP_RESP_HANDLER_CALL == 139

ORP_NTFY_SENSOR_CALL == 12

ORP_RESP_SENSOR_CALL == 140

ORP_SYNC_SYN == 13

ORP_SYNC_SYNACK == 14

ORP_SYNC_ACK == 15

ORP_RQST_FILE_DATA == 16

ORP_RESP_FILE_DATA == 144

ORP_NTFY_FILE_CONTROL == 17

ORP_RESP_FILE_CONTROL == 145

ORP_RESP_UNKNOWN_RQST == 128

ORP_IO_DATA_TYPE_TRIGGER == 0

ORP_IO_DATA_TYPE_BOOLEAN == 1

ORP_IO_DATA_TYPE_NUMERIC == 2

ORP_IO_DATA_TYPE_STRING == 3

ORP_IO_DATA_TYPE_JSON == 4

ORP_PROTOCOL_TIMESTAMP_LEN_MAX == 17

\* not defined in the sources at hand; the values follow the
\* representation 0000000000.000000 documented with the length above
ORP_PROTOCOL_TIMESTAMP_INTEGER_LEN_MAX == 10

ORP_PROTOCOL_TIMESTAMP_DECIMAL_LEN_MAX == 6

ORP_IO_DATA_TYPE_UNDEF == -1

\* orp_PacketTypeTable: required is the set of the masks or-ed in the row
orp_PacketTypeTable == <<
    [encoded |-> ORP_PKT_RQST_INPUT_CREATE, decoded |-> ORP_RQST_INPUT_CREATE,
     required |-> {ORP_MASK_DATA_TYPE, ORP_MASK_PATH}],
    [encoded |-> ORP_PKT_RESP_INPUT_CREATE, decoded |-> ORP_RESP_INPUT_CREATE,
     required |-> {ORP_MASK_STATUS}],
    [encoded |-> ORP_PKT_RQST_OUTPUT_CREATE, decoded |-> ORP_RQST_OUTPUT_CREATE,
     required |-> {ORP_MASK_DATA_TYPE, ORP_MASK_PATH}],
    [encoded |-> ORP_PKT_RESP_OUTPUT_CREATE, decoded |-> ORP_RESP_OUTPUT_CREATE,
     required |-> {ORP_MASK_STATUS}],
    [encoded |-> ORP_PKT_RQST_DELETE, decoded |-> ORP_RQST_DELETE,
     required |-> {ORP_MASK_PATH}],
    [encoded |-> ORP_PKT_RESP_DELETE, decoded |-> ORP_RESP_DELETE,
     required |-> {ORP_MASK_STATUS}],
    [encoded |-> ORP_PKT_RQST_HANDLER_ADD, decoded |-> ORP_RQST_HANDLER_ADD,
     required |-> {ORP_MASK_PATH}],
    [encoded |-> ORP_PKT_RESP_HANDLER_ADD, decoded |-> ORP_RESP_HANDLER_ADD,
     required |-> {ORP_MASK_STATUS}],
    [encoded |-> ORP_PKT_RQST_HANDLER_REMOVE, decoded |-> ORP_RQST_HANDLER_REM,
     required |-> {ORP_MASK_PATH}],
    [encoded |-> ORP_PKT_RESP_HANDLER_REMOVE, decoded |-> ORP_RESP_HANDLER_REM,
     required |-> {ORP_MASK_STATUS}],
    [encoded |-> ORP_PKT_RQST_PUSH, decoded |-> ORP_RQST_PUSH,
     required |-> {ORP_MASK_DATA_TYPE, ORP_MASK_PATH}],
    [encoded |-> ORP_PKT_RESP_PUSH, decoded |-> ORP_RESP_PUSH,
     required |-> {ORP_MASK_STATUS}],
    [encoded |-> ORP_PKT_RQST_GET, decoded |-> ORP_RQST_GET,
     required |-> {ORP_MASK_PATH}],
    [encoded |-> ORP_PKT_RESP_GET, decoded |-> ORP_RESP_GET,
     required |-> {ORP_MASK_STATUS}],
    [encoded |-> ORP_PKT_RQST_EXAMPLE_SET, decoded |-> ORP_RQST_EXAMPLE_SET,
     required |-> {ORP_MASK_DATA_TYPE, ORP_MASK_PATH}],
    [encoded |-> ORP_PKT_RESP_EXAMPLE_SET, decoded |-> ORP_RESP_EXAMPLE_SET,
     required |-> {ORP_MASK_STATUS}],
    [encoded |-> ORP_PKT_RQST_SENSOR_CREATE, decoded |-> ORP_RQST_SENSOR_CREATE,
     required |-> {ORP_MASK_DATA_TYPE, ORP_MASK_PATH}],
    [encoded |-> ORP_PKT_RESP_SENSOR_CREATE, decoded |-> ORP_RESP_SENSOR_CREATE,
     required |-> {ORP_MASK_STATUS}],
    [encoded |-> ORP_PKT_RQST_SENSOR_REMOVE, decoded |-> ORP_RQST_SENSOR_REMOVE,
     required |-> {ORP_MASK_PATH}],
    [encoded |-> ORP_PKT_RESP_SENSOR_REMOVE, decoded |-> ORP_RESP_SENSOR_REMOVE,
     required |-> {ORP_MASK_STATUS}],
    [encoded |-> ORP_PKT_NTFY_HANDLER_CALL, decoded |-> ORP_NTFY_HANDLER_CALL,
     required |-> {ORP_MASK_TIME, ORP_MASK_PATH}],
    [encoded |-> ORP_PKT_RESP_HANDLER_CALL, decoded |-> ORP_RESP_HANDLER_CALL,
     required |-> {ORP_MASK_STATUS}],
    [encoded |-> ORP_PKT_NTFY_SENSOR_CALL, decoded |-> ORP_NTFY_SENSOR_CALL,
     required |-> {ORP_MASK_PATH}],
    [encoded |-> ORP_PKT_RESP_SENSOR_CALL, decoded |-> ORP_RESP_SENSOR_CALL,
     required |-> {ORP_MASK_STATUS}],
    [encoded |-> ORP_PKT_SYNC_SYN, decoded |-> ORP_SYNC_SYN,
     required |-> {ORP_MASK_VERSION}],
    [encoded |-> ORP_PKT_SYNC_SYNACK, decoded |-> ORP_SYNC_SYNACK,
     required |-> {ORP_MASK_VERSION}],
    [encoded |-> ORP_PKT_SYNC_ACK, decoded |-> ORP_SYNC_ACK,
     required |-> {ORP_MASK_VERSION}],
    [encoded |-> ORP_PKT_RQST_FILE_DATA, decoded |-> ORP_RQST_FILE_DATA,
     required |-> {ORP_MASK_DATA}],
    [encoded |-> ORP_PKT_RESP_FILE_DATA, decoded |-> ORP_RESP_FILE_DATA,
     required |-> {ORP_MASK_STATUS}],
    [encoded |-> ORP_PKT_NTFY_FILE_CONTROL, decoded |-> ORP_NTFY_FILE_CONTROL,
     required |-> {ORP_MASK_EVENT}],
    [encoded |-> ORP_PKT_RESP_FILE_CONTROL, decoded |-> ORP_RESP_FILE_CONTROL,
     required |-> {ORP_MASK_STATUS}],
    [encoded |-> ORP_PKT_RESP_UNKNOWN_RQST, decoded |-> ORP_RESP_UNKNOWN_RQST,
     required |-> {}] >>

orp_DataTypeTable == <<
    [encoded |-> ORP_DATA_TYPE_TRIGGER, decoded |-> ORP_IO_DATA_TYPE_TRIGGER],
    [encoded |-> ORP_DATA_TYPE_BOOLEAN, decoded |-> ORP_IO_DATA_TYPE_BOOLEAN],
    [encoded |-> ORP_DATA_TYPE_NUMERIC, decoded |-> ORP_IO_DATA_TYPE_NUMERIC],
    [encoded |-> ORP_DATA_TYPE_STRING, decoded |-> ORP_IO_DATA_TYPE_STRING],
    [encoded |-> ORP_DATA_TYPE_JSON, decoded |-> ORP_IO_DATA_TYPE_JSON],
    [encoded |-> ORP_DATA_TYPE_UNDEF, decoded |-> ORP_IO_DATA_TYPE_UNDEF] >>


(***************************************************************************)
(* Messages (struct orp_Message).  A pointer is NULL or Ptr(s), s being    *)
(* the bytes it points to.  A timestamp (a double in the code) is a record *)
(* of its seconds s and its microseconds us below TimeScale; the sign is   *)
(* that of s.                                                              *)
(***************************************************************************)
NULL == <<>>

Ptr(s) == <<s>>

Deref(p) == p[1]

TimeScale == 1000000

ORP_TIMESTAMP_INVALID == [s |-> -1, us |-> 0]

Min(S) == CHOOSE x \in S : \A y \in S : x <= y

orp_MessageInInit ==
    [type |-> ORP_PACKET_TYPE_UNKNOWN, dataType |-> ORP_IO_DATA_TYPE_UNDEF,
     version |-> 0, status |-> 0, sequenceNum |-> 0,
     timestamp |-> [s |-> 0, us |-> 0],
     path |-> Ptr(<<>>), unit |-> Ptr(<<>>), data |-> NULL, dataLen |-> 0,
     sentCount |-> 0, receivedCount |-> 0, mtu |-> 0]

orp_MessageInit(type, status) ==
    [type |-> type, dataType |-> 0, version |-> 0, status |-> status,
     sequenceNum |-> 0, timestamp |-> ORP_TIMESTAMP_INVALID,
     path |-> NULL, unit |-> NULL, data |-> NULL, dataLen |-> 0,
     sentCount |-> -1, receivedCount |-> -1, mtu |-> -1]

\* rows of the packet type table holding a decoded type / an encoded byte
TypeRows(ptype) ==
    {i \in 1..Len(orp_PacketTypeTable) : orp_PacketTypeTable[i].decoded = ptype}

ByteRows(b) ==
    {i \in 1..Len(orp_PacketTypeTable) : orp_PacketTypeTable[i].encoded = b}

\* the scans stop at the first matching row
RowRequired(rows, fieldMask) ==
    IF rows = {} THEN FALSE
    ELSE fieldMask \in orp_PacketTypeTable[Min(rows)].required

orp_FieldRequired(ptype, fieldMask) == RowRequired(TypeRows(ptype), fieldMask)

RowDecoded(rows) ==
    IF rows = {} THEN [ok |-> FALSE, ptype |-> ORP_PACKET_TYPE_UNKNOWN]
    ELSE [ok |-> TRUE, ptype |-> orp_PacketTypeTable[Min(rows)].decoded]

RowEncoded(rows) ==
    IF rows = {} THEN [ok |-> FALSE, byte |-> 0]
    ELSE [ok |-> TRUE, byte |-> orp_PacketTypeTable[Min(rows)].encoded]

\* buf is the packet buffer, C offset i being element i + 1
orp_PacketTypeDecode(buf) == RowDecoded(ByteRows(buf[ORP_OFFSET_PACKET_TYPE + 1]))

orp_PacketTypeEncode(ptype) == RowEncoded(TypeRows(ptype))

DataRowDecoded(rows) ==
    IF rows = {} THEN [ok |-> FALSE, dtype |-> ORP_IO_DATA_TYPE_UNDEF]
    ELSE [ok |-> TRUE, dtype |-> orp_DataTypeTable[Min(rows)].decoded]

DataRowEncoded(rows) ==
    IF rows = {} THEN [ok |-> FALSE, byte |-> 0]
    ELSE [ok |-> TRUE, byte |-> orp_DataTypeTable[Min(rows)].encoded]

orp_DataTypeDecode(buf) ==
    DataRowDecoded({i \in 1..Len(orp_DataTypeTable) :
                      orp_DataTypeTable[i].encoded = buf[ORP_OFFSET_DATA_TYPE + 1]})

orp_DataTypeEncode(dtype) ==
    DataRowEncoded({i \in 1..Len(orp_DataTypeTable) :
                      orp_DataTypeTable[i].decoded = dtype})

\* the cast to uint8_t
orp_StatusEncode(status) == (ORP_RESP_STATUS_OK - status) % 256

\* A faulty status decoder that subtracts the other way round.
orp_StatusDecode_Swapped(buf) == buf[ORP_OFFSET_STATUS + 1] - ORP_RESP_STATUS_OK

orp_StatusDecode(buf) == ORP_RESP_STATUS_OK - buf[ORP_OFFSET_STATUS + 1]

orp_EnumEncode(enumValue) ==
    IF enumValue <= 9 THEN [ok |-> TRUE, byte |-> (48 + enumValue) % 256]
    ELSE IF 10 <= enumValue /\ enumValue <= 35
    THEN [ok |-> TRUE, byte |-> 65 + (enumValue - 10)]
    ELSE [ok |-> FALSE, byte |-> 0]

\* toupper in the C locale, for bytes below 128
toupper(b) == IF 97 <= b /\ b <= 122 THEN b - 32 ELSE b

\* the conditions are those of the code: '0' <= c || c <= '9', then
\* 'A' <= c || c <= 'Z'
EnumOfChar(c) ==
    IF 48 <= c \/ c <= 57 THEN [ok |-> TRUE, value |-> c - 48]
    ELSE IF 65 <= c \/ c <= 90 THEN [ok |-> TRUE, value |-> (c - 65) + 10]
    ELSE [ok |-> FALSE, value |-> 0]

orp_EnumDecode(buf, offset) == EnumOfChar(toupper(buf[offset + 1]))

\* byte 1 of an outgoing packet; it keeps the 0 of the memset when the type
\* requires none of the four fields
orp_PacketByte1Encode(msg) ==
    IF orp_FieldRequired(msg.type, ORP_MASK_STATUS)
    THEN [ok |-> TRUE, byte |-> orp_StatusEncode(msg.status)]
    ELSE IF orp_FieldRequired(msg.type, ORP_MASK_DATA_TYPE)
    THEN orp_DataTypeEncode(msg.dataType)
    ELSE IF orp_FieldRequired(msg.type, ORP_MASK_VERSION)
    THEN orp_EnumEncode(ORP_PROTOCOL_V2)
    ELSE IF orp_FieldRequired(msg.type, ORP_MASK_EVENT)
    THEN orp_EnumEncode(msg.status)
    ELSE [ok |-> TRUE, byte |-> 0]

\* the assignments through the pointers handed to the byte-1 decoders
SetDataType(msg, r) == [ok |-> r.ok, msg |-> [msg EXCEPT !.dataType = r.dtype]]

SetVersion(msg, r) ==
    [ok |-> r.ok, msg |-> IF r.ok THEN [msg EXCEPT !.version = r.value] ELSE msg]

SetEvent(msg, r) ==
    [ok |-> r.ok, msg |-> IF r.ok THEN [msg EXCEPT !.status = r.value] ELSE msg]

\* byte 1 of an incoming packet: status starts false and is set only in one
\* of the four branches
orp_PacketByte1Decode(buf, msg) ==
    IF orp_FieldRequired(msg.type, ORP_MASK_STATUS)
    THEN [ok |-> TRUE, msg |-> [msg EXCEPT !.status = orp_StatusDecode(buf)]]
    ELSE IF orp_FieldRequired(msg.type, ORP_MASK_DATA_TYPE)
    THEN SetDataType(msg, orp_DataTypeDecode(buf))
    ELSE IF orp_FieldRequired(msg.type, ORP_MASK_VERSION)
    THEN SetVersion(msg, orp_EnumDecode(buf, 1))
    ELSE IF orp_FieldRequired(msg.type, ORP_MASK_EVENT)
    THEN SetEvent(msg, orp_EnumDecode(buf, 1))
    ELSE [ok |-> FALSE, msg |-> msg]

(***************************************************************************)
(* Numbers as text: "%d", "%lf" (six decimals), strtoul, strtod.           *)
(***************************************************************************)
IsDigit(c) == 48 <= c /\ c <= 57

RECURSIVE DecDigits(_)
DecDigits(n) ==
    IF n < 10 THEN <<48 + n>> ELSE Append(DecDigits(n \div 10), 48 + (n % 10))

RECURSIVE PadDigits(_, _)
PadDigits(n, w) ==
    IF w = 0 THEN <<>> ELSE Append(PadDigits(n \div 10, w - 1), 48 + (n % 10))

\* "%d"
FmtInt(n) == IF n < 0 THEN <<45>> \o DecDigits(0 - n) ELSE DecDigits(n)

\* A faulty "%lf" that prints one decimal only.
FmtLf_OneDecimal(t) ==
    (IF t.s < 0 THEN <<45>> ELSE <<>>)
    \o DecDigits(IF t.s < 0 THEN 0 - t.s ELSE t.s) \o <<46>>
    \o PadDigits((t.us % TimeScale) \div 100000, 1)

\* "%lf" of a timestamp
FmtLf(t) ==
    (IF t.s < 0 THEN <<45>> ELSE <<>>)
    \o DecDigits(IF t.s < 0 THEN 0 - t.s ELSE t.s) \o <<46>>
    \o PadDigits(t.us % TimeScale, 6)

\* value of a string of digits in a base
RECURSIVE DigitsVal(_, _)
DigitsVal(s, base) ==
    IF s = <<>> THEN 0
    ELSE (DigitsVal(Take(s, Len(s) - 1), base) * base) + (s[Len(s)] - 48)

\* the C string at offset i of buf: the bytes up to the first NUL
RECURSIVE StrAt(_, _)
StrAt(buf, i) ==
    IF i >= Len(buf) \/ buf[i + 1] = 0 THEN <<>>
    ELSE <<buf[i + 1]>> \o StrAt(buf, i + 1)

\* the longest prefix of s made of digits below 48 + base
RECURSIVE DigitPrefix(_, _)
DigitPrefix(s, base) ==
    IF s = <<>> \/ ~(48 <= Head(s) /\ Head(s) < 48 + base) THEN <<>>
    ELSE <<Head(s)>> \o DigitPrefix(Tail(s), base)

\* strtoul(s, &endPtr, 0) of a string without white space, sign or 0x: octal
\* after a leading 0, decimal otherwise, 0 when there is no digit
strtoul0(s) ==
    IF s # <<>> /\ Head(s) = 48
    THEN DigitsVal(DigitPrefix(s, 8), 8)
    ELSE DigitsVal(DigitPrefix(s, 10), 10)

RECURSIVE Zeros(_)
Zeros(n) == IF n <= 0 THEN <<>> ELSE Append(Zeros(n - 1), 0)

\* snprintf(buf, bufLen, "%c%lf", 'T', time); the text is taken to fit
orp_TimeEncode(time) ==
    IF time = ORP_TIMESTAMP_INVALID THEN <<>>
    ELSE <<ORP_FIELD_ID_TIME>> \o FmtLf(time)

\* timeStr is a C string (not NULL)
orp_TimeDecode(timeStr) ==
    LET len    == Len(timeStr)
        nondig == {i \in 1..len : ~IsDigit(timeStr[i])}
        decimalIndex == IF nondig = {} THEN len ELSE Min(nondig) - 1
        frac   == Drop(timeStr, decimalIndex + 1)
        fail   == [ok |-> FALSE, val |-> [s |-> 0, us |-> 0]]
    IN  IF len = 0 \/ len > ORP_PROTOCOL_TIMESTAMP_LEN_MAX THEN fail
        ELSE IF nondig # {} /\ (timeStr[Min(nondig)] # 46 \/ Cardinality(nondig) > 1)
        THEN fail
        ELSE IF nondig # {} /\ Len(frac) > ORP_PROTOCOL_TIMESTAMP_DECIMAL_LEN_MAX
        THEN fail
        ELSE IF decimalIndex > ORP_PROTOCOL_TIMESTAMP_INTEGER_LEN_MAX THEN fail
        ELSE IF decimalIndex = 0 /\ frac = <<>> THEN fail
        ELSE [ok |-> TRUE,
              val |-> [s |-> DigitsVal(Take(timeStr, decimalIndex), 10),
                       us |-> DigitsVal(frac \o Zeros(6 - Len(frac)), 10)
                              % TimeScale]]

\* the field encoders return the bytes written and the C return value
orp_PathEncode(bufLen, path) ==
    IF path = NULL THEN [bytes |-> <<>>, ret |-> 0]
    ELSE IF Len(Deref(path)) + 1 > bufLen THEN [bytes |-> <<>>, ret |-> -1]
    ELSE [bytes |-> <<ORP_FIELD_ID_PATH>> \o Deref(path),
          ret |-> Len(Deref(path)) + 1]

\* with data NULL nothing is written and dataLen is returned: the caller
\* skips that many bytes of the zeroed buffer
orp_DataEncode(bufLen, data, dataLen) ==
    IF data # NULL /\ dataLen # 0
    THEN LET n == IF bufLen - 1 < dataLen THEN bufLen - 1 ELSE dataLen
         IN  [bytes |-> <<ORP_FIELD_ID_DATA>> \o Take(Deref(data), n), ret |-> n + 1]
    ELSE [bytes |-> Zeros(dataLen), ret |-> dataLen]

orp_MtuEncode(bufLen, mtu) ==
    LET s == <<ORP_FIELD_ID_MTU>> \o FmtInt(mtu)
    IN  IF bufLen <= Len(s) THEN [bytes |-> <<>>, ret |-> -1]
        ELSE [bytes |-> s, ret |-> Len(s)]

orp_SentCountEncode(bufLen, count) ==
    IF count < 0 THEN [bytes |-> <<>>, ret |-> -1]
    ELSE [bytes |-> <<ORP_FIELD_ID_SENT_COUNT>> \o FmtInt(count),
          ret |-> 1 + Len(FmtInt(count))]

orp_ReceivedCountEncode(bufLen, count) ==
    IF count < 0 THEN [bytes |-> <<>>, ret |-> -1]
    ELSE [bytes |-> <<ORP_FIELD_ID_RECV_COUNT>> \o FmtInt(count),
          ret |-> 1 + Len(FmtInt(count))]

(***************************************************************************)
(* orp_ProtocolDecode_v1.  buf is the packet buffer, longer than pktLen;   *)
(* the bytes after pktLen are what the buffer held before.  ptrs holds the *)
(* offsets the string pointers are set to (-1: not set).                   *)
(***************************************************************************)
RECURSIVE ScanFields(_, _, _, _, _, _)
ScanFields(buf, pktLen, offset, state, msg, ptrs) ==
    IF ~(offset < pktLen /\ state # "DONE" /\ state # "ERROR")
    THEN [buf |-> buf, state |-> state, msg |-> msg, ptrs |-> ptrs]
    ELSE LET c == buf[offset + 1]
         IN  IF c = ORP_VARLENGTH_SEPARATOR
             THEN ScanFields([buf EXCEPT ![offset + 1] = 0], pktLen, offset + 1,
                             "SEARCH", msg, ptrs)
             ELSE IF state # "SEARCH"
             THEN ScanFields(buf, pktLen, offset + 1, state, msg, ptrs)
             ELSE CASE c = ORP_FIELD_ID_PATH ->
                         ScanFields(buf, pktLen, offset + 1, "INFIELD", msg,
                                    [ptrs EXCEPT !.path = offset + 1])
                    [] c = ORP_FIELD_ID_TIME ->
                         ScanFields(buf, pktLen, offset + 1, "INFIELD", msg,
                                    [ptrs EXCEPT !.time = offset + 1])
                    [] c = ORP_FIELD_ID_UNITS ->
                         ScanFields(buf, pktLen, offset + 1, "INFIELD", msg,
                                    [ptrs EXCEPT !.unit = offset + 1])
                    [] c = ORP_FIELD_ID_DATA ->
                         ScanFields([buf EXCEPT ![pktLen + 1] = 0], pktLen,
                                    offset + 1, "DONE",
                                    [msg EXCEPT
                                       !.data = Ptr(SubSeq(buf, offset + 2, pktLen)),
                                       !.dataLen = (pktLen - offset) - 1],
                                    ptrs)
                    [] c = ORP_FIELD_ID_MTU ->
                         ScanFields(buf, pktLen, offset + 1, "INFIELD",
                                    [msg EXCEPT !.mtu = strtoul0(StrAt(buf, offset + 1))],
                                    ptrs)
                    [] c = ORP_FIELD_ID_RECV_COUNT ->
                         ScanFields(buf, pktLen, offset + 1, "INFIELD",
                                    [msg EXCEPT !.receivedCount =
                                                  strtoul0(StrAt(buf, offset + 1))],
                                    ptrs)
                    [] c = ORP_FIELD_ID_SENT_COUNT ->
                         ScanFields(buf, pktLen, offset + 1, "INFIELD",
                                    [msg EXCEPT !.sentCount =
                                                  strtoul0(StrAt(buf, offset + 1))],
                                    ptrs)
                    [] OTHER ->
                         ScanFields(buf, pktLen, offset + 1, "ERROR", msg, ptrs)

\* after the loop: the strings are read from the buffer as it is on return
DecodeResult(sc, buf, td) ==
    [ok |-> (sc.state # "ERROR" /\ td.ok),
     msg |-> [sc.msg EXCEPT
                !.path = IF sc.ptrs.path >= 0
                         THEN Ptr(StrAt(buf, sc.ptrs.path)) ELSE @,
                !.unit = IF sc.ptrs.unit >= 0
                         THEN Ptr(StrAt(buf, sc.ptrs.unit)) ELSE @,
                !.timestamp = IF td.ok THEN td.val ELSE @],
     buf |-> buf]

DecodeTime(sc, buf) ==
    DecodeResult(sc, buf,
                 IF sc.ptrs.time >= 0
                 THEN orp_TimeDecode(StrAt(buf, sc.ptrs.time))
                 ELSE [ok |-> TRUE, val |-> sc.msg.timestamp])

\* A faulty scan that stops one byte short of the packet length.
DecodeFields_Short(pktBuf, pktLen, msg) ==
    LET sc == ScanFields(pktBuf, pktLen - 1, ORP_OFFSET_VARLENGTH, "SEARCH", msg,
                         [path |-> -1, time |-> -1, unit |-> -1])
    IN  DecodeTime(sc, [sc.buf EXCEPT ![pktLen + 1] = 0])

DecodeFields(pktBuf, pktLen, msg) ==
    LET sc == ScanFields(pktBuf, pktLen, ORP_OFFSET_VARLENGTH, "SEARCH", msg,
                         [path |-> -1, time |-> -1, unit |-> -1])
    IN  DecodeTime(sc, [sc.buf EXCEPT ![pktLen + 1] = 0])

DecodeSeqNum(pktBuf, pktLen, b1) ==
    IF ~b1.ok THEN [ok |-> FALSE, msg |-> b1.msg, buf |-> pktBuf]
    ELSE DecodeFields(pktBuf, pktLen,
                      [b1.msg EXCEPT !.sequenceNum =
                         ((pktBuf[ORP_OFFSET_SEQ_NUM + 1] * 256) % 65536)
                         + (pktBuf[ORP_OFFSET_SEQ_NUM + 2] % 256)])

DecodeByte1(pktBuf, pktLen, t) ==
    IF ~t.ok THEN [ok |-> FALSE, msg |-> orp_MessageInInit, buf |-> pktBuf]
    ELSE DecodeSeqNum(pktBuf, pktLen,
                      orp_PacketByte1Decode(pktBuf,
                          [orp_MessageInInit EXCEPT !.type = t.ptype]))

\* the result: ok, the message and the buffer on return
orp_ProtocolDecode_v1(pktBuf, pktLen) ==
    IF pktLen < ORP_PACKET_LEN_MIN
    THEN [ok |-> FALSE, msg |-> orp_MessageInInit, buf |-> pktBuf]
    ELSE DecodeByte1(pktBuf, pktLen, orp_PacketTypeDecode(pktBuf))

(***************************************************************************)
(* orp_ProtocolEncode_v1.  The packet is built field by field; a step      *)
(* appends a field after a separator when the previous field length is not *)
(* 0, and does nothing once a step has failed (the break of the code).     *)
(***************************************************************************)
\* A faulty separator rule: a comma before every field, the first included.
Sep_Always(s) == Append(s.pkt, ORP_VARLENGTH_SEPARATOR)

Sep(s) ==
    IF s.fieldLen # 0 THEN Append(s.pkt, ORP_VARLENGTH_SEPARATOR) ELSE s.pkt

Put(s, f) ==
    IF f.ret < 0 THEN [s EXCEPT !.ok = FALSE]
    ELSE [s EXCEPT !.pkt = Sep(s) \o f.bytes, !.fieldLen = f.ret]

EncodeFixed(msg, t, b1, tm) ==
    [ok |-> (t.ok /\ b1.ok), fieldLen |-> Len(tm), dataLen |-> msg.dataLen,
     pkt |-> <<t.byte, b1.byte, msg.sequenceNum % 256,
               (msg.sequenceNum \div 256) % 256>> \o tm]

EncodePath(len, msg, s) ==
    IF s.ok /\ msg.path # NULL
    THEN Put(s, orp_PathEncode(len - Len(Sep(s)), msg.path)) ELSE s

\* msg->dataLen -= fieldLen
SubDataLen(s) == IF s.ok THEN [s EXCEPT !.dataLen = @ - s.fieldLen] ELSE s

EncodeData(len, msg, s) ==
    IF s.ok /\ msg.dataLen # 0
    THEN SubDataLen(Put(s, orp_DataEncode(len - Len(Sep(s)), msg.data, msg.dataLen)))
    ELSE s

\* A faulty guard that lets an ACK carry the counters too.
IsSync_WithAck(msg) ==
    msg.type = ORP_SYNC_SYN \/ msg.type = ORP_SYNC_SYNACK \/ msg.type = ORP_SYNC_ACK

IsSync(msg) == msg.type = ORP_SYNC_SYN \/ msg.type = ORP_SYNC_SYNACK

EncodeMtu(len, msg, s) ==
    IF s.ok /\ IsSync(msg) /\ msg.mtu >= 0
    THEN Put(s, orp_MtuEncode(len - Len(Sep(s)), msg.mtu)) ELSE s

EncodeSent(len, msg, s) ==
    IF s.ok /\ IsSync(msg) /\ msg.sentCount >= 0
    THEN Put(s, orp_SentCountEncode(len - Len(Sep(s)), msg.sentCount)) ELSE s

EncodeReceived(len, msg, s) ==
    IF s.ok /\ IsSync(msg) /\ msg.receivedCount >= 0
    THEN Put(s, orp_ReceivedCountEncode(len - Len(Sep(s)), msg.receivedCount))
    ELSE s

EncodeResult(len, msg, s) ==
    IF len < ORP_PACKET_LEN_MIN \/ ~s.ok
    THEN [ok |-> FALSE, pkt |-> <<>>, dataLen |-> msg.dataLen]
    ELSE [ok |-> TRUE, pkt |-> s.pkt, dataLen |-> s.dataLen]

\* len is *packetLen on entry; the result: the return value, the packet
\* (*packetLen is its length) and msg->dataLen on return (negative: the
\* size_t wrapped around)
orp_ProtocolEncode_v1(len, msg) ==
    EncodeResult(len, msg,
      EncodeReceived(len, msg,
        EncodeSent(len, msg,
          EncodeMtu(len, msg,
            EncodeData(len, msg,
              EncodePath(len, msg,
                EncodeFixed(msg, orp_PacketTypeEncode(msg.type),
                            orp_PacketByte1Encode(msg),
                            orp_TimeEncode(msg.timestamp))))))))

(***************************************************************************)
(* File transfer helper (orpFile.c).  fs is the record of its statics      *)
(* AutoMode, FileName, IncomingFileData, IncomingFileDataLen,              *)
(* ReceivedFileBytes, ExpectedFileBytes, with the environment: disk, the   *)
(* content of the file named FileName (empty when it does not exist), and  *)
(* openOk, whether open() of it succeeds.  There is one file on disk, so  *)
(* every non-empty name names it.  IncomingFileData holds the bytes before *)
(* the zeros of the memset.                                                *)
(***************************************************************************)
FileStatics ==
    [AutoMode |-> FALSE, FileName |-> <<>>, IncomingFileData |-> <<>>,
     IncomingFileDataLen |-> 0, ReceivedFileBytes |-> 0,
     ExpectedFileBytes |-> -1, disk |-> <<>>, openOk |-> TRUE]

\* snprintf of the name, then unlink of an existing file
FileTransferSetName(fs, namePtr) ==
    IF namePtr = NULL THEN fs
    ELSE [fs EXCEPT !.FileName = Deref(namePtr),
                    !.disk = IF Deref(namePtr) # <<>> /\ fs.openOk
                             THEN <<>> ELSE @]

\* the file state afterwards and the return value; write() is taken to
\* succeed in the end
FileDataWrite(fs, dataPtr, dataLen) ==
    IF fs.FileName # <<>> /\ dataLen # 0 /\ dataPtr # NULL
    THEN IF ~fs.openOk THEN [fs |-> fs, ret |-> -1]
         ELSE [fs |-> [fs EXCEPT !.disk = @ \o Take(Deref(dataPtr), dataLen)],
               ret |-> dataLen]
    ELSE [fs |-> fs, ret |-> -1]

FileDataKeep(fs, dataPtr, dataLen) ==
    IF dataPtr = NULL THEN fs
    ELSE [fs EXCEPT !.IncomingFileData = Take(Deref(dataPtr), dataLen),
                    !.IncomingFileDataLen = dataLen]

orp_FileTransferGetAuto(fs) == fs.AutoMode

orp_FileDataSetup(fs, namePtr, fileSize, isAuto) ==
    [FileTransferSetName(fs, namePtr) EXCEPT
        !.AutoMode = isAuto, !.ReceivedFileBytes = 0,
        !.ExpectedFileBytes = fileSize, !.IncomingFileDataLen = 0,
        !.IncomingFileData = <<>>]

\* the end of orp_FileDataCache: count the bytes unless the write failed,
\* then leave auto mode once all expected bytes are received
CacheCount(fs, writtenLen, dataLen) ==
    LET received == IF writtenLen # -1 THEN fs.ReceivedFileBytes + dataLen
                    ELSE fs.ReceivedFileBytes
    IN  [fs EXCEPT !.ReceivedFileBytes = received,
                   !.AutoMode = IF fs.ExpectedFileBytes > 0
                                   /\ received >= fs.ExpectedFileBytes
                                THEN FALSE ELSE @]

orp_FileDataCache(fs, dataPtr, dataLen) ==
    IF fs.AutoMode
    THEN CacheCount(FileDataWrite(fs, dataPtr, dataLen).fs,
                    FileDataWrite(fs, dataPtr, dataLen).ret, dataLen)
    ELSE CacheCount(FileDataKeep(fs, dataPtr, dataLen), dataLen, dataLen)

\* A faulty flush that leaves the staged bytes in place.
orp_FileDataFlush_NoClear(fs) ==
    IF ~fs.AutoMode /\ fs.IncomingFileDataLen # 0
    THEN FileDataWrite(fs, Ptr(fs.IncomingFileData), fs.IncomingFileDataLen).fs
    ELSE fs

orp_FileDataFlush(fs) ==
    IF ~fs.AutoMode /\ fs.IncomingFileDataLen # 0
    THEN [FileDataWrite(fs, Ptr(fs.IncomingFileData),
                        fs.IncomingFileDataLen).fs
            EXCEPT !.IncomingFileDataLen = 0, !.IncomingFileData = <<>>]
    ELSE fs

(***************************************************************************)
(* Client receive and respond paths (orpClient.c), HDLC mode.  p is the    *)
(* record of the statics rxHdlcContext, rxPacketBuf, rxPacketLen and of    *)
(* the file helper fs, with what the calls produced so far: errors (the    *)
(* failures printed), delivered (the messages handed to orp_Dispatch),     *)
(* decoded (the packet lengths handed to orp_Decode),                      *)
(* sent (the frames written to fd), and the locals ack and consumed.       *)
(* RxPacketSize stands for ORP_PACKET_SIZE_MAX.                            *)
(***************************************************************************)
RxPacketSize == 8

ORP_HDLC_FRAME_SIZE_MAX == (RxPacketSize * 2) + HDLC_OVERHEAD_BYTES_COUNT

LE_OK == 0

\* dest written at offset into buf
WriteAt(buf, offset, dest) ==
    [i \in 1..Len(buf) |->
        IF i > offset /\ i <= offset + Len(dest) THEN dest[i - offset] ELSE buf[i]]

\* orp_AtEnframe: the frame buffer is cleared, then at_Pack
orp_AtEnframe(frameBufSize, packet) == at_Pack(frameBufSize, packet, Len(packet))

\* the end of orp_HdlcEnframe: the value returned and the bytes written to
\* frameBuf.  count is a size_t, so `count < 0` never holds: the value of
\* hdlc_PackFinalize, -1 included, is added to frameLen
EnframeFinalized(pk, fin) ==
    [ret |-> pk.ret + fin.ret, buf |-> pk.dest \o fin.dest]

\* A faulty framing without the check of the room left for the end of the
\* frame.
EnframePacked_NoRoomCheck(frameBufSize, packet, pk) ==
    IF pk.srclen < Len(packet) THEN [ret |-> -1, buf |-> pk.dest]
    ELSE EnframeFinalized(pk, hdlc_PackFinalize(pk.ctx, frameBufSize - pk.ret))

\* orp_HdlcEnframe after hdlc_Pack returned pk
EnframePacked(frameBufSize, packet, pk) ==
    IF pk.srclen < Len(packet) THEN [ret |-> -1, buf |-> pk.dest]
    ELSE IF frameBufSize - pk.ret < HDLC_OVERHEAD_BYTES_COUNT - 1
    THEN [ret |-> -1, buf |-> pk.dest]
    ELSE EnframeFinalized(pk, hdlc_PackFinalize(pk.ctx, frameBufSize - pk.ret))

\* the value returned by orp_HdlcEnframe and the bytes written to frameBuf
EnframeResult(frameBufSize, packet) ==
    IF frameBufSize < Len(packet) + HDLC_OVERHEAD_BYTES_COUNT
    THEN [ret |-> -1, buf |-> <<>>]
    ELSE EnframePacked(frameBufSize, packet,
                       hdlc_Pack(hdlc_Init, frameBufSize, packet))

\* the bytes frameBuf[0 .. frameLen) a caller sends, <<>> when -1 is returned
EnframeBytes(r) == IF r.ret < 0 THEN <<>> ELSE SubSeq(r.buf, 1, r.ret)

orp_HdlcEnframe(frameBufSize, packet) ==
    EnframeBytes(EnframeResult(frameBufSize, packet))

\* encode into txPacketBuf, frame into txFrameBuf, write to fd (the write
\* is taken to succeed)
SendEncoded(p, enc) ==
    IF ~enc.ok THEN p
    ELSE IF orp_HdlcEnframe(ORP_HDLC_FRAME_SIZE_MAX, enc.pkt) = <<>> THEN p
    ELSE [p EXCEPT !.sent = Append(@, orp_HdlcEnframe(ORP_HDLC_FRAME_SIZE_MAX,
                                                      enc.pkt))]

orp_ClientMessageSend(p, message) ==
    SendEncoded(p, orp_ProtocolEncode_v1(RxPacketSize, message))

\* A faulty response that flushes for every FILE_DATA response, whatever
\* its status.
orp_Respond_AlwaysFlush(p, type, status) ==
    IF type \notin {ORP_RESP_HANDLER_CALL, ORP_RESP_SENSOR_CALL,
                    ORP_RESP_FILE_DATA, ORP_RESP_FILE_CONTROL}
    THEN p
    ELSE orp_ClientMessageSend(
             IF type = ORP_RESP_FILE_DATA
             THEN [p EXCEPT !.fs = orp_FileDataFlush(@)] ELSE p,
             orp_MessageInit(type, status))

orp_Respond(p, type, status) ==
    IF type \notin {ORP_RESP_HANDLER_CALL, ORP_RESP_SENSOR_CALL,
                    ORP_RESP_FILE_DATA, ORP_RESP_FILE_CONTROL}
    THEN p
    ELSE orp_ClientMessageSend(
             IF type = ORP_RESP_FILE_DATA /\ status = LE_OK
             THEN [p EXCEPT !.fs = orp_FileDataFlush(@)] ELSE p,
             orp_MessageInit(type, status))

\* the err label of orp_HdlcDeframe
DeframeErr(p, what, code) ==
    [p EXCEPT !.errors = Append(@, [what |-> what, code |-> code]),
              !.rxHdlcContext = hdlc_Init, !.rxPacketLen = 0]

\* after the loop
DeframeEnd(p) ==
    IF p.ack THEN orp_Respond(p, ORP_RESP_FILE_DATA, 0) ELSE p

IsFileData(message) ==
    /\ message.type = ORP_RQST_FILE_DATA
    /\ message.data # NULL
    /\ message.dataLen # 0

\* a decoded message: file data is cached, the message dispatched, the
\* context and packet length reset
DeframeDispatch(p, message) ==
    [p EXCEPT !.ack = @ \/ (IsFileData(message) /\ orp_FileTransferGetAuto(p.fs)),
              !.fs = IF IsFileData(message)
                     THEN orp_FileDataCache(@, message.data, message.dataLen)
                     ELSE @,
              !.delivered = Append(@, message),
              !.rxHdlcContext = hdlc_Init,
              !.rxPacketLen = 0]

RECURSIVE DeframeLoop(_, _)

\* A faulty pipeline that dispatches the message whatever the decoder
\* returned.
DeframeDecoded_Lenient(p, rest, d) ==
    IF Len(rest) > 0
    THEN DeframeLoop(DeframeDispatch([p EXCEPT !.rxPacketBuf = d.buf], d.msg), rest)
    ELSE DeframeEnd(DeframeDispatch([p EXCEPT !.rxPacketBuf = d.buf], d.msg))

DeframeDecoded(p, rest, d) ==
    IF ~d.ok THEN DeframeErr([p EXCEPT !.rxPacketBuf = d.buf], "decode", 0)
    ELSE IF Len(rest) > 0
    THEN DeframeLoop(DeframeDispatch([p EXCEPT !.rxPacketBuf = d.buf], d.msg), rest)
    ELSE DeframeEnd(DeframeDispatch([p EXCEPT !.rxPacketBuf = d.buf], d.msg))

DeframeStored(p, rest) ==
    IF p.rxPacketLen > RxPacketSize
    THEN DeframeErr(p, "length", p.rxPacketLen)
    ELSE IF ~hdlc_UnpackDone(p.rxHdlcContext) THEN DeframeEnd(p)
    ELSE DeframeDecoded([p EXCEPT !.decoded = Append(@, p.rxPacketLen)], rest,
                        orp_ProtocolDecode_v1(p.rxPacketBuf, p.rxPacketLen))

DeframeUnpacked(p, frame, u) ==
    IF u.ret < 0
    THEN DeframeErr([p EXCEPT !.rxPacketBuf = WriteAt(@, p.rxPacketLen, u.dest),
                              !.consumed = @ + u.srclen],
                    "unpack", u.ret)
    ELSE DeframeStored([p EXCEPT !.rxHdlcContext = u.ctx,
                                 !.rxPacketBuf = WriteAt(@, p.rxPacketLen, u.dest),
                                 !.rxPacketLen = @ + u.ret,
                                 !.consumed = @ + u.srclen],
                       Drop(frame, u.srclen))

\* A faulty loop that offers hdlc_Unpack one byte more than the packet
\* buffer has left.
DeframeLoop_WideDest(p, frame) ==
    DeframeUnpacked(p, frame,
                    hdlc_Unpack(p.rxHdlcContext, (RxPacketSize + 1) - p.rxPacketLen,
                                frame))

DeframeLoop(p, frame) ==
    DeframeUnpacked(p, frame,
                    hdlc_Unpack(p.rxHdlcContext, RxPacketSize - p.rxPacketLen,
                                frame))

orp_HdlcDeframe(p, frame) ==
    DeframeLoop([p EXCEPT !.ack = FALSE, !.consumed = 0], frame)

(***************************************************************************)
(* State.                                                                  *)
(*  h...  : one framing round trip (SpecHdlc): the payload, its frame, the *)
(*          part of the frame not yet fed to the deframer, the deframer's  *)
(*          context, the bytes it emitted so far, whether a call returned  *)
(*          an error, whether a call got less than the rest of the frame,  *)
(*          and the result of feeding the whole frame to a fresh context   *)
(*          in one call.                                                   *)
(*  c...  : one codec round trip (SpecCodec): the message handed to the    *)
(*          encoder, what the receiving packet buffer holds after the      *)
(*          packet, the result of the encoder and that of the decoder.     *)
(*  pipe, rxFrameBuf, p... : the receive path (SpecPipe): the statics of   *)
(*          orp_HdlcDeframe and of the file helper with what the calls     *)
(*          produced, the rxFrameLen bytes held in rxFrameBuf, the bytes   *)
(*          the peer wrote that are not read yet, what the peer wrote in   *)
(*          all, and what the last call had to process and consumed.       *)
(*  file, fLast : the file helper on its own (SpecFile): its statics and   *)
(*          the last call made, with the statics before it.                *)
(***************************************************************************)
VARIABLES hPhase, hPayload, hFrame, hRest, hCtx, hOut, hErr, hSplit, hWhole,
          cPhase, cMsg, cStale, cEnc, cDec, cAt,
          pipe, rxFrameBuf, pStream, pScen, pLast,
          file, fLast,
          sPhase, sCall, sMode, sTx,
          wPhase, wFs, wCall, wLen, wLog, wDev,
          uAll, uPos, uCtx, uRef, uLast, uOut, uDone,
          kPhase, kPayload, kPos, kCtx, kFrame, kTrace, kEn,
          xPhase, xCrc, xByte, xOut,
          yPhase, yFs, yCall, yOut

hdlcVars == <<hPhase, hPayload, hFrame, hRest, hCtx, hOut, hErr, hSplit, hWhole>>

codecVars == <<cPhase, cMsg, cStale, cEnc, cDec, cAt>>

pipeVars == <<pipe, rxFrameBuf, pStream, pScen, pLast>>

fileVars == <<file, fLast>>

sendVars == <<sPhase, sCall, sMode, sTx>>

writeVars == <<wPhase, wFs, wCall, wLen, wLog, wDev>>

streamVars == <<uAll, uPos, uCtx, uRef, uLast, uOut, uDone>>

packVars == <<kPhase, kPayload, kPos, kCtx, kFrame, kTrace, kEn>>

crcVars == <<xPhase, xCrc, xByte, xOut>>

respondVars == <<yPhase, yFs, yCall, yOut>>

vars ==
    <<hdlcVars, codecVars, pipeVars, fileVars, sendVars, writeVars, streamVars,
      packVars, crcVars, respondVars>>

\* what the actions of one part leave alone
OtherThanHdlc ==
    <<codecVars, pipeVars, fileVars, sendVars,
      writeVars, streamVars, packVars, crcVars, respondVars>>

OtherThanCodec ==
    <<hdlcVars, pipeVars, fileVars, sendVars,
      writeVars, streamVars, packVars, crcVars, respondVars>>

OtherThanPipe ==
    <<hdlcVars, codecVars, fileVars, sendVars,
      writeVars, streamVars, packVars, crcVars, respondVars>>

OtherThanFile ==
    <<hdlcVars, codecVars, pipeVars, sendVars,
      writeVars, streamVars, packVars, crcVars, respondVars>>

OtherThanSend ==
    <<hdlcVars, codecVars, pipeVars, fileVars,
      writeVars, streamVars, packVars, crcVars, respondVars>>

OtherThanStream ==
    <<hdlcVars, codecVars, pipeVars, fileVars,
      sendVars, writeVars, packVars, crcVars, respondVars>>

OtherThanPack ==
    <<hdlcVars, codecVars, pipeVars, fileVars,
      sendVars, writeVars, streamVars, crcVars, respondVars>>

OtherThanCrc ==
    <<hdlcVars, codecVars, pipeVars, fileVars,
      sendVars, writeVars, streamVars, packVars, respondVars>>

OtherThanRespond ==
    <<hdlcVars, codecVars, pipeVars, fileVars,
      sendVars, writeVars, streamVars, packVars, crcVars>>

OtherThanWrite ==
    <<hdlcVars, codecVars, pipeVars, fileVars,
      sendVars, streamVars, packVars, crcVars, respondVars>>

(***************************************************************************)
(* SpecHdlc: frame a payload with hdlc_Pack and hdlc_PackFinalize, then    *)
(* deframe it with hdlc_Unpack, in one call and in pieces.                 *)
(***************************************************************************)
\* capacity of the frame and packet buffers of the round trip: enough for a
\* fully escaped payload and crc
HBufSize == (2 * MaxLen) + HDLC_OVERHEAD_BYTES_COUNT

CodecIdle ==
    /\ cPhase = "off"
    /\ cMsg = orp_MessageInInit
    /\ cStale = <<0>>
    /\ cEnc = [ok |-> FALSE, pkt |-> <<>>, dataLen |-> 0]
    /\ cDec = [ok |-> FALSE, msg |-> orp_MessageInInit, buf |-> <<>>]
    /\ cAt = [ret |-> 0, dest |-> <<>>]

\* orp_ClientInit and the initial values of the statics
PipeStatics ==
    [rxHdlcContext |-> hdlc_Init, rxPacketBuf |-> Zeros(RxPacketSize),
     rxPacketLen |-> 0, fs |-> FileStatics, errors |-> <<>>,
     delivered |-> <<>>, decoded |-> <<>>, sent |-> <<>>, ack |-> FALSE,
     consumed |-> 0]

NoScenario ==
    [kind |-> "off", payloadLen |-> 0, isAuto |-> FALSE, fileSize |-> 0,
     requests |-> 0, fileBytes |-> 0, packet |-> <<>>, flags |-> <<0, 0, 0>>]

PipeIdle ==
    /\ pipe = PipeStatics
    /\ rxFrameBuf = <<>>
    /\ pStream = <<>>
    /\ pScen = NoScenario
    /\ pLast = [avail |-> 0, consumed |-> 0]

FileIdle ==
    /\ file = FileStatics
    /\ fLast = [op |-> "off", pre |-> FileStatics, data |-> <<>>, base |-> -1]

NoCall ==
    [fn |-> "none", path |-> NULL, dataType |-> 0,
     timestamp |-> ORP_TIMESTAMP_INVALID, value |-> NULL]

NoSend == [pkt |-> <<>>, frame |-> <<>>, rc |-> -1, result |-> 0, errors |-> <<>>]

SendIdle ==
    /\ sPhase = "off"
    /\ sCall = NoCall
    /\ sMode = "HDLC"
    /\ sTx = NoSend

NoTrace == [split |-> FALSE, esc |-> FALSE, full |-> FALSE]

NoEnframe == [size |-> 0, ret |-> 0, buf |-> <<>>]

PackIdle ==
    /\ kPhase = "off"
    /\ kPayload = <<>>
    /\ kPos = 0
    /\ kCtx = hdlc_Init
    /\ kFrame = <<>>
    /\ kTrace = NoTrace
    /\ kEn = NoEnframe

CrcIdle ==
    /\ xPhase = "off"
    /\ xCrc = 0
    /\ xByte = 0
    /\ xOut = 0

RespondIdle ==
    /\ yPhase = "off"
    /\ yFs = FileStatics
    /\ yCall = [type |-> 0, status |-> 0]
    /\ yOut = PipeStatics

NoUnpack == [ret |-> 0, dest |-> <<>>, srclen |-> 0, done |-> TRUE]

StreamIdle ==
    /\ uAll = <<>>
    /\ uPos = 0
    /\ uCtx = hdlc_Init
    /\ uRef = hdlc_Init
    /\ uLast = [pre |-> hdlc_Init, src |-> <<>>, real |-> NoUnpack,
                ref |-> NoUnpack]
    /\ uOut = <<>>
    /\ uDone = <<>>

WriteIdle ==
    /\ wPhase = "off"
    /\ wFs = FileStatics
    /\ wCall = [op |-> "none", data |-> NULL, pre |-> FileStatics]
    /\ wLen = 0
    /\ wLog = 0
    /\ wDev = "ok"

HdlcIdle ==
    /\ hPhase = "off"
    /\ hPayload = <<>>
    /\ hFrame = <<>>
    /\ hRest = <<>>
    /\ hCtx = hdlc_Init
    /\ hOut = <<>>
    /\ hErr = FALSE
    /\ hSplit = FALSE
    /\ hWhole = <<>>

HdlcStart ==
    /\ hPhase = "new"
    /\ hPayload \in SeqsUpTo(ByteSet, MaxLen)
    /\ hFrame = <<>>
    /\ hRest = <<>>
    /\ hCtx = hdlc_Init
    /\ hOut = <<>>
    /\ hErr = FALSE
    /\ hSplit = FALSE
    /\ hWhole = <<>>

\* hdlc_Init, hdlc_Pack of the whole payload, hdlc_PackFinalize
HdlcPackFrame ==
    /\ hPhase = "new"
    /\ LET p == hdlc_Pack(hdlc_Init, HBufSize, hPayload)
           f == hdlc_PackFinalize(p.ctx, HBufSize - p.ret)
       IN  /\ p.srclen = Len(hPayload)
           /\ f.ret >= 0
           /\ hFrame' = p.dest \o f.dest
           /\ hRest' = p.dest \o f.dest
    /\ hPhase' = "packed"
    /\ hCtx' = hdlc_Init
    /\ UNCHANGED <<hPayload, hOut, hErr, hSplit, hWhole>>
    /\ UNCHANGED OtherThanHdlc

\* hdlc_Unpack of the whole frame on a freshly initialised context
HdlcUnpackWhole ==
    /\ hPhase = "packed"
    /\ hWhole = <<>>
    /\ hWhole' = <<hdlc_Unpack(hdlc_Init, HBufSize, hFrame)>>
    /\ UNCHANGED <<hPhase, hPayload, hFrame, hRest, hCtx, hOut, hErr, hSplit>>
    /\ UNCHANGED OtherThanHdlc

\* hdlc_Unpack of the next n bytes of the frame on the context kept between
\* the calls; the destination is the free part of the packet buffer
HdlcUnpackPiece(n) ==
    /\ hPhase = "packed"
    /\ n \in 1..Len(hRest)
    /\ LET r == hdlc_Unpack(hCtx, HBufSize - Len(hOut), Take(hRest, n))
       IN  /\ hCtx' = r.ctx
           /\ hRest' = Drop(hRest, r.srclen)
           /\ hOut' = IF r.ret >= 0 THEN hOut \o r.dest ELSE hOut
           /\ hErr' = (hErr \/ r.ret < 0)
    /\ hSplit' = (hSplit \/ n < Len(hRest))
    /\ UNCHANGED <<hPhase, hPayload, hFrame, hWhole>>
    /\ UNCHANGED OtherThanHdlc

NextHdlc ==
    \/ HdlcPackFrame
    \/ HdlcUnpackWhole
    \/ \E n \in 1..HBufSize : HdlcUnpackPiece(n)

InitHdlc ==
    /\ HdlcStart
    /\ CodecIdle
    /\ PipeIdle
    /\ FileIdle
    /\ SendIdle
    /\ WriteIdle
    /\ StreamIdle
    /\ PackIdle
    /\ CrcIdle
    /\ RespondIdle

SpecHdlc == InitHdlc /\ [][NextHdlc]_vars

\* the crc of a byte sequence as the framer accumulates it
RECURSIVE CrcOf(_, _)
CrcOf(crc, s) ==
    IF s = <<>> THEN crc ELSE CrcOf(crc_ccitt_update(crc, Head(s)), Tail(s))

(***************************************************************************)
(* C1: a payload framed by hdlc_Pack and hdlc_PackFinalize and fed to      *)
(* hdlc_Unpack on a fresh context comes out unchanged, without error, the  *)
(* frame is consumed whole, and the crc the deframer computed equals the   *)
(* crc carried in the frame (and the crc of the payload).                  *)
(***************************************************************************)
Thm_C1 ==
    hWhole # <<>> =>
        LET r == hWhole[1]
        IN  /\ r.ret = Len(hPayload)
            /\ r.dest = hPayload
            /\ r.srclen = Len(hFrame)
            /\ hdlc_UnpackDone(r.ctx)
            /\ r.ctx.crc = (r.ctx.crcbuf[HDLC_FRAM_CRC_MSB + 1] * 256)
                           + r.ctx.crcbuf[HDLC_FRAM_CRC_LSB + 1]
            /\ r.ctx.crc = CrcOf(CRC_CRC16_CCITT_INIT, hPayload)

Wit_C1 ==
    /\ hWhole # <<>>
    /\ hPayload = <<HDLC_FRAME_OCTET, HDLC_ESC_OCTET, 0>>
    /\ hWhole[1].dest = hPayload

(***************************************************************************)
(* C2: feeding the frame in consecutive pieces, whatever their lengths,    *)
(* emits the same bytes and leaves the same context as feeding it whole.   *)
(***************************************************************************)
Thm_C2 ==
    (hPhase = "packed" /\ hRest = <<>> /\ hWhole # <<>>) =>
        /\ ~hErr
        /\ hOut = hWhole[1].dest
        /\ hCtx = hWhole[1].ctx

Wit_C2 ==
    /\ hPhase = "packed"
    /\ hRest = <<>>
    /\ hWhole # <<>>
    /\ hSplit
    /\ HDLC_ESC_OCTET \in {hPayload[i] : i \in 1..Len(hPayload)}
    /\ Len(hPayload) = MaxLen

(***************************************************************************)
(* SpecCodec: encode a message with orp_ProtocolEncode_v1 and decode the   *)
(* packet with orp_ProtocolDecode_v1.                                      *)
(***************************************************************************)
\* size of the packet buffer handed to the encoder (ORP_PACKET_SIZE_MAX in
\* the client)
CodecBufLen == 40

PacketTypes == {orp_PacketTypeTable[i].decoded : i \in 1..Len(orp_PacketTypeTable)}

\* the values of the byte-1 fields (dataType, version, status or event) a
\* message of a type is given
Byte1Values(t) ==
    IF orp_FieldRequired(t, ORP_MASK_STATUS)
    THEN {[dataType |-> 0, version |-> 0, status |-> 0 - i] : i \in 0..22}
    ELSE IF orp_FieldRequired(t, ORP_MASK_DATA_TYPE)
    THEN {[dataType |-> dt, version |-> 0, status |-> 0] :
            dt \in {ORP_IO_DATA_TYPE_BOOLEAN, ORP_IO_DATA_TYPE_JSON}}
    ELSE IF orp_FieldRequired(t, ORP_MASK_VERSION)
    THEN {[dataType |-> 0, version |-> v, status |-> 0] :
            v \in {ORP_PROTOCOL_V1, ORP_PROTOCOL_V2}}
    ELSE IF orp_FieldRequired(t, ORP_MASK_EVENT)
    THEN {[dataType |-> 0, version |-> 0, status |-> ev] : ev \in 0..35}
    ELSE {[dataType |-> 0, version |-> 0, status |-> 0]}

\* the counters orp_SyncSend gives a sync message: mtu, sent and received,
\* each one negative when it is left out
SyncValues(t) ==
    IF t \in {ORP_SYNC_SYN, ORP_SYNC_SYNACK, ORP_SYNC_ACK}
    THEN {<<-1, -1, -1>>, <<128, 0, 7>>, <<512, 10, 9>>, <<-1, 10, -1>>}
    ELSE {<<-1, -1, -1>>}

\* the units orp_CreateResource and orp_CreateSensor give a create request:
\* none, "mV"
Units(t) ==
    IF t \in {ORP_RQST_INPUT_CREATE, ORP_RQST_OUTPUT_CREATE,
              ORP_RQST_SENSOR_CREATE}
    THEN {NULL, Ptr(<<109, 86>>)}
    ELSE {NULL}

SeqNums == {0, 258, 65535}

\* no timestamp, 1.5 s
Times == {ORP_TIMESTAMP_INVALID, [s |-> 1, us |-> 500000]}

\* no path, "/a"
Paths == {NULL, Ptr(<<47, 97>>)}

\* no data, "x;"
Datas == {NULL, Ptr(<<120, 59>>)}

\* messages as the client builds them: orp_MessageInit, then the fields
MessagesOf(t) ==
    {[orp_MessageInit(t, b.status) EXCEPT
        !.dataType = b.dataType, !.version = b.version, !.sequenceNum = sq,
        !.timestamp = ts, !.path = p, !.unit = u, !.data = d,
        !.dataLen = IF d = NULL THEN 0 ELSE Len(Deref(d)),
        !.mtu = sy[1], !.sentCount = sy[2], !.receivedCount = sy[3]] :
       b \in Byte1Values(t), sq \in SeqNums, ts \in Times, p \in Paths,
       u \in Units(t), d \in Datas, sy \in SyncValues(t)}

\* orp_Push("/a/b", NUMERIC, 1541112861.0, "123")
PushExample ==
    [orp_MessageInit(ORP_RQST_PUSH, 0) EXCEPT
        !.dataType = ORP_IO_DATA_TYPE_NUMERIC, !.path = Ptr(<<47, 97, 47, 98>>),
        !.timestamp = [s |-> 1541112861, us |-> 0],
        !.data = Ptr(<<49, 50, 51>>), !.dataLen = 3]

\* orp_CreateResource(true, "/x", BOOLEAN, "mV")
CreateExample ==
    [orp_MessageInit(ORP_RQST_INPUT_CREATE, 0) EXCEPT
        !.dataType = ORP_IO_DATA_TYPE_BOOLEAN, !.path = Ptr(<<47, 120>>),
        !.unit = Ptr(<<109, 86>>)]

\* orp_Push("/a", STRING, -1.0, value) with a value longer than the buffer
LongExample ==
    [orp_MessageInit(ORP_RQST_PUSH, 0) EXCEPT
        !.dataType = ORP_IO_DATA_TYPE_STRING, !.path = Ptr(<<47, 97>>),
        !.data = Ptr([i \in 1..(CodecBufLen + 2) |-> 97 + (i % 26)]),
        !.dataLen = CodecBufLen + 2]

\* orp_Push("/a", STRING, -1.0, "1,P2,D"): a value with separators and
\* field identifiers in it
CommaExample ==
    [orp_MessageInit(ORP_RQST_PUSH, 0) EXCEPT
        !.dataType = ORP_IO_DATA_TYPE_STRING, !.path = Ptr(<<47, 97>>),
        !.data = Ptr(<<49, 44, 80, 50, 44, 68>>), !.dataLen = 6]

CodecMessages ==
    UNION {MessagesOf(t) : t \in PacketTypes}
    \cup {PushExample, CreateExample, LongExample, CommaExample}

\* what the receiving buffer holds after the packet: a NUL, or the digit '1'
\* of an earlier, longer packet
StaleSet == {<<0>>, <<49, 0>>}

InitCodec ==
    /\ cPhase = "new"
    /\ cMsg \in CodecMessages
    /\ cStale \in StaleSet
    /\ cEnc = [ok |-> FALSE, pkt |-> <<>>, dataLen |-> 0]
    /\ cDec = [ok |-> FALSE, msg |-> orp_MessageInInit, buf |-> <<>>]
    /\ cAt = [ret |-> 0, dest |-> <<>>]
    /\ HdlcIdle
    /\ PipeIdle
    /\ FileIdle
    /\ SendIdle
    /\ WriteIdle
    /\ StreamIdle
    /\ PackIdle
    /\ CrcIdle
    /\ RespondIdle

CodecEncode ==
    /\ cPhase = "new"
    /\ cEnc' = orp_ProtocolEncode_v1(CodecBufLen, cMsg)
    /\ cPhase' = "encoded"
    /\ UNCHANGED <<cMsg, cStale, cDec, cAt>>
    /\ UNCHANGED OtherThanCodec

CodecDecode ==
    /\ cPhase = "encoded"
    /\ cEnc.ok
    /\ cDec' = orp_ProtocolDecode_v1(cEnc.pkt \o cStale, Len(cEnc.pkt))
    /\ cPhase' = "decoded"
    /\ UNCHANGED <<cMsg, cStale, cEnc, cAt>>
    /\ UNCHANGED OtherThanCodec

\* the AT branch of orp_ClientMessageSend: orp_AtEnframe of the packet into
\* a frame buffer of the size of txFrameBuf
CodecAtEnframe ==
    /\ cPhase = "encoded"
    /\ cEnc.ok
    /\ cAt' = orp_AtEnframe((2 * CodecBufLen) + HDLC_OVERHEAD_BYTES_COUNT, cEnc.pkt)
    /\ cPhase' = "framed"
    /\ UNCHANGED <<cMsg, cStale, cEnc, cDec>>
    /\ UNCHANGED OtherThanCodec

NextCodec ==
    \/ CodecEncode
    \/ CodecDecode
    \/ CodecAtEnframe

SpecCodec == InitCodec /\ [][NextCodec]_vars

\* a message that carries the fields its type requires
ValidMsg(m) ==
    /\ m.type \in PacketTypes
    /\ orp_FieldRequired(m.type, ORP_MASK_PATH) => m.path # NULL
    /\ orp_FieldRequired(m.type, ORP_MASK_DATA) => (m.data # NULL /\ m.dataLen > 0)
    /\ orp_FieldRequired(m.type, ORP_MASK_TIME) => m.timestamp.s >= 0
    /\ orp_FieldRequired(m.type, ORP_MASK_DATA_TYPE) =>
          orp_DataTypeEncode(m.dataType).ok

\* d equals m up to the fields m.type does not require, which may be zero or
\* the sentinel, and up to the data that did not fit
RoundTripEq(m, d) ==
    /\ d.type = m.type
    /\ orp_FieldRequired(m.type, ORP_MASK_STATUS) => d.status = m.status
    /\ orp_FieldRequired(m.type, ORP_MASK_EVENT) => d.status = m.status
    /\ orp_FieldRequired(m.type, ORP_MASK_DATA_TYPE) => d.dataType = m.dataType
    /\ orp_FieldRequired(m.type, ORP_MASK_VERSION) => d.version = m.version
    /\ d.sequenceNum = m.sequenceNum
    /\ \/ d.timestamp = m.timestamp
       \/ /\ ~orp_FieldRequired(m.type, ORP_MASK_TIME)
          /\ d.timestamp \in {[s |-> 0, us |-> 0], ORP_TIMESTAMP_INVALID}
    /\ \/ d.path = m.path
       \/ /\ ~orp_FieldRequired(m.type, ORP_MASK_PATH)
          /\ d.path \in {NULL, Ptr(<<>>)}
    /\ \/ d.unit = m.unit
       \/ d.unit \in {NULL, Ptr(<<>>)}
    /\ \/ /\ d.data # NULL
          /\ m.data # NULL
          /\ d.dataLen <= m.dataLen
          /\ Deref(d.data) = Take(Deref(m.data), d.dataLen)
       \/ /\ ~orp_FieldRequired(m.type, ORP_MASK_DATA)
          /\ d.dataLen = 0

(***************************************************************************)
(* C3: for every valid message M, decoding the packet produced by encoding *)
(* M succeeds and yields M in type, byte-1 value, sequenceNum, timestamp,  *)
(* path, unit and data, up to fields M.type does not require and to        *)
(* truncated data.  The code does not do this.                             *)
(***************************************************************************)
Claim_C3 ==
    (cPhase = "decoded" /\ ValidMsg(cMsg)) =>
        (cDec.ok /\ RoundTripEq(cMsg, cDec.msg))

\* a push request with every field set comes back with another sequence
\* number
Wit_C3 ==
    /\ cPhase = "decoded"
    /\ ValidMsg(cMsg)
    /\ cMsg.type = ORP_RQST_PUSH
    /\ cMsg.path # NULL /\ cMsg.data # NULL /\ cMsg.timestamp.s >= 0
    /\ cDec.ok
    /\ ~RoundTripEq(cMsg, cDec.msg)

(***************************************************************************)
(* C4: for every row of the packet type table, a well-formed packet of the *)
(* type with its required fields is accepted by the decoder and returned   *)
(* as a message of that type, whether or not the row requires one of       *)
(* STATUS / DATA_TYPE / VERSION / EVENT.  The code rejects the types whose *)
(* row requires none of the four.                                          *)
(***************************************************************************)
Claim_C4 ==
    (cPhase = "decoded" /\ ValidMsg(cMsg)) =>
        (cDec.ok /\ cDec.msg.type = cMsg.type)

\* a file data request with its data is rejected
Wit_C4 ==
    /\ cPhase = "decoded"
    /\ ValidMsg(cMsg)
    /\ cMsg.type = ORP_RQST_FILE_DATA
    /\ cMsg.data # NULL
    /\ ~cDec.ok

(***************************************************************************)
(* C10: an encoded packet holds the low byte of sequenceNum at offset 2    *)
(* and the high byte at offset 3, and the decoder reads the number back    *)
(* unchanged.  The decoder of the code takes offset 2 as the high byte.    *)
(***************************************************************************)
Claim_C10 ==
    /\ (cPhase \in {"encoded", "decoded"} /\ cEnc.ok) =>
          /\ cEnc.pkt[ORP_OFFSET_SEQ_NUM + 1] = cMsg.sequenceNum % 256
          /\ cEnc.pkt[ORP_OFFSET_SEQ_NUM + 2] = cMsg.sequenceNum \div 256
    /\ (cPhase = "decoded" /\ cDec.ok) =>
          cDec.msg.sequenceNum = cMsg.sequenceNum

\* 0x0102 is encoded as 02 01 and read back as 0x0201
Wit_C10 ==
    /\ cPhase = "decoded"
    /\ cDec.ok
    /\ cMsg.sequenceNum = 258
    /\ cEnc.pkt[ORP_OFFSET_SEQ_NUM + 1] = 2
    /\ cEnc.pkt[ORP_OFFSET_SEQ_NUM + 2] = 1
    /\ cDec.msg.sequenceNum = 513


(***************************************************************************)
(* SpecPipe: the peer writes a stream of frames to the descriptor and      *)
(* orp_ClientReceive is called whenever bytes are pending, reading any     *)
(* number of them.                                                         *)
(***************************************************************************)
\* responses of the service: push with sequence bytes 0x7C 0x00, input
\* create with sequence number 1
PacketA == <<ORP_PKT_RESP_PUSH, ORP_RESP_STATUS_OK, 124, 0>>

PacketB == <<ORP_PKT_RESP_INPUT_CREATE, ORP_RESP_STATUS_OK, 0, 1>>

\* a file data request of the service: type, unused byte, sequence, data
FileDataPacket(d) == <<ORP_PKT_RQST_FILE_DATA, 0, 0, 1, ORP_FIELD_ID_DATA>> \o d

\* a push request with a payload of n bytes in all
LongPacket(n) ==
    <<ORP_PKT_RQST_PUSH, ORP_DATA_TYPE_STRING, 0, 2, ORP_FIELD_ID_DATA>>
    \o [i \in 1..(n - 5) |-> 96 + i]

\* the frame the peer sends for a packet
PeerFrame(packet) ==
    orp_HdlcEnframe((2 * Len(packet)) + HDLC_OVERHEAD_BYTES_COUNT, packet)

\* the frame with bit b of its i-th byte flipped
FlipBit(frame, i, b) == [frame EXCEPT ![i] = Xor8(@, 2^b)]

\* the file names, sizes and data of the transfers
FileNameF == <<102>>

FileChunks == {<<97>>, <<97, 98>>}

FileSizes == {-1, 2}

\* a corrupted frame before a valid one
CorruptScenarios ==
    {[scen |-> [NoScenario EXCEPT !.kind = "corrupt"],
      stream |-> FlipBit(PeerFrame(PacketA), i, b) \o PeerFrame(PacketB)]
        : i \in 2..(1 + Len(PacketA)), b \in 0..7}

\* a frame whose payload fills the packet buffer or more before a valid one
LongScenarios ==
    {[scen |-> [NoScenario EXCEPT !.kind = "long", !.payloadLen = n],
      stream |-> PeerFrame(LongPacket(n)) \o PeerFrame(PacketB)]
        : n \in (RxPacketSize - 1)..(RxPacketSize + 1)}

ValidScenarios ==
    {[scen |-> [NoScenario EXCEPT !.kind = "valid"],
      stream |-> PeerFrame(PacketA) \o PeerFrame(PacketB)]}

\* file data requests after a 'file control start' with or without auto
FileScenarios ==
    {[scen |-> [kind |-> "file", payloadLen |-> 0, isAuto |-> a,
                fileSize |-> z, requests |-> 1, fileBytes |-> Len(d),
                packet |-> <<>>, flags |-> <<0, 0, 0>>],
      stream |-> PeerFrame(FileDataPacket(d))]
        : a \in BOOLEAN, z \in FileSizes, d \in FileChunks}
    \cup
    {[scen |-> [kind |-> "file", payloadLen |-> 0, isAuto |-> a,
                fileSize |-> z, requests |-> 2, fileBytes |-> 2,
                packet |-> <<>>, flags |-> <<0, 0, 0>>],
      stream |-> PeerFrame(FileDataPacket(<<97>>))
                 \o PeerFrame(FileDataPacket(<<98>>))]
        : a \in BOOLEAN, z \in FileSizes}

\* packets the decoder must refuse: shorter than the header ("", "p@",
\* "p@" 0), an unknown type letter ('?'), an unknown data type ('?' in a
\* push request), an unknown field identifier ('X'), and timestamps that
\* are empty, hold a letter or hold two points
MalformedPackets ==
    {<<>>,
     <<ORP_PKT_RESP_PUSH, ORP_RESP_STATUS_OK>>,
     <<ORP_PKT_RESP_PUSH, ORP_RESP_STATUS_OK, 0>>,
     <<63, ORP_RESP_STATUS_OK, 0, 0>>,
     <<ORP_PKT_RQST_PUSH, 63, 0, 0>>,
     <<ORP_PKT_RESP_PUSH, ORP_RESP_STATUS_OK, 0, 0, 88, 49>>,
     <<ORP_PKT_RESP_GET, ORP_RESP_STATUS_OK, 0, 0, ORP_FIELD_ID_TIME>>,
     <<ORP_PKT_RESP_GET, ORP_RESP_STATUS_OK, 0, 0, ORP_FIELD_ID_TIME, 49, 97>>,
     <<ORP_PKT_RESP_GET, ORP_RESP_STATUS_OK, 0, 0, ORP_FIELD_ID_TIME, 46, 46>>}

\* a frame of such a packet, in auto mode or not
MalformedScenarios ==
    {[scen |-> [NoScenario EXCEPT !.kind = "malformed", !.isAuto = a,
                                  !.fileSize = -1, !.packet = bad],
      stream |-> PeerFrame(bad)]
        : bad \in MalformedPackets, a \in BOOLEAN}

\* the most frame octets the peer sends in a row outside the frames
MaxFlags == 2

\* n frame octets
Flags(n) == [i \in 1..n |-> HDLC_FRAME_OCTET]

\* two valid frames with frame octets before, between and after them
FlagScenarios ==
    {[scen |-> [NoScenario EXCEPT !.kind = "flags", !.flags = <<a, b, c>>],
      stream |-> Flags(a) \o PeerFrame(PacketA) \o Flags(b)
                 \o PeerFrame(PacketB) \o Flags(c)]
        : a \in 0..MaxFlags, b \in 0..MaxFlags, c \in 0..MaxFlags}

\* the client starts reading after the first k bytes of a frame
PartialScenarios ==
    {[scen |-> [NoScenario EXCEPT !.kind = "partial", !.payloadLen = k],
      stream |-> Drop(PeerFrame(PacketA), k) \o PeerFrame(PacketB)]
        : k \in 1..(Len(PeerFrame(PacketA)) - 1)}

PipeScenarios ==
    CorruptScenarios \cup LongScenarios \cup ValidScenarios \cup FileScenarios
    \cup MalformedScenarios \cup FlagScenarios \cup PartialScenarios

InitPipe ==
    /\ \E sc \in PipeScenarios :
          /\ pScen = sc.scen
          /\ pStream = sc.stream
          /\ pipe = [PipeStatics EXCEPT !.fs =
                        IF sc.scen.kind \in {"file", "malformed"}
                        THEN orp_FileDataSetup(@, Ptr(FileNameF),
                                               sc.scen.fileSize, sc.scen.isAuto)
                        ELSE @]
    /\ rxFrameBuf = <<>>
    /\ pLast = [avail |-> 0, consumed |-> 0]
    /\ HdlcIdle
    /\ CodecIdle
    /\ FileIdle
    /\ SendIdle
    /\ WriteIdle
    /\ StreamIdle
    /\ PackIdle
    /\ CrcIdle
    /\ RespondIdle

\* what orp_ClientReceive leaves: the statics after orp_HdlcDeframe of the
\* rxFrameLen bytes, and the bytes not consumed moved to the front
ReceiveDeframed(buf, r) ==
    /\ pipe' = r
    /\ rxFrameBuf' = Drop(buf, r.consumed)
    /\ pLast' = [avail |-> Len(buf), consumed |-> r.consumed]

\* orp_ClientReceive with read() returning n bytes; it returns 0 only when
\* rxFrameBuf is full
orp_ClientReceive(n) ==
    /\ pStream # <<>>
    /\ n <= Len(pStream)
    /\ n <= ORP_HDLC_FRAME_SIZE_MAX - Len(rxFrameBuf)
    /\ n = 0 => Len(rxFrameBuf) = ORP_HDLC_FRAME_SIZE_MAX
    /\ ReceiveDeframed(rxFrameBuf \o Take(pStream, n),
                       orp_HdlcDeframe(pipe, rxFrameBuf \o Take(pStream, n)))
    /\ pStream' = Drop(pStream, n)
    /\ UNCHANGED pScen
    /\ UNCHANGED OtherThanPipe

NextPipe == \E n \in 0..ORP_HDLC_FRAME_SIZE_MAX : orp_ClientReceive(n)

SpecPipe == InitPipe /\ [][NextPipe]_vars

\* the message a valid frame of PacketB decodes to
MessageB ==
    [orp_MessageInInit EXCEPT !.type = ORP_RESP_INPUT_CREATE,
                              !.status = 0, !.sequenceNum = 1]

\* the frame of a FILE_DATA response with status OK
FileDataRespOk ==
    PeerFrame(<<ORP_PKT_RESP_FILE_DATA, ORP_RESP_STATUS_OK, 0, 0>>)


\* every byte the peer wrote has been read
AllRead == pStream = <<>>

\* the FILE_DATA responses with status OK among the frames sent
FileDataAcks == Len(SelectSeq(pipe.sent, LAMBDA f : f = FileDataRespOk))

(***************************************************************************)
(* C5: a frame with one bit of its payload flipped, followed by a valid    *)
(* frame: once both have been read, in one read or in several, the         *)
(* pipeline has reported one CRC error, has delivered no message for the   *)
(* corrupted frame and has delivered the message of the valid frame.       *)
(***************************************************************************)
Claim_C5 ==
    (pScen.kind = "corrupt" /\ AllRead) =>
        /\ Len(pipe.errors) = 1
        /\ pipe.errors[1] = [what |-> "unpack", code |-> HDLC_ERROR_CRC]
        /\ pipe.delivered = <<MessageB>>

\* both frames were read, the CRC error was reported, and the valid frame
\* lies undecoded in rxFrameBuf
Wit_C5 ==
    /\ pScen.kind = "corrupt"
    /\ AllRead
    /\ pipe.errors = <<[what |-> "unpack", code |-> HDLC_ERROR_CRC]>>
    /\ pipe.delivered = <<>>
    /\ rxFrameBuf = PeerFrame(PacketB)

(***************************************************************************)
(* C6: a frame whose payload exceeds the capacity of the packet buffer:    *)
(* the pipeline resets the HDLC context and the packet length and keeps    *)
(* consuming the inbound bytes (a call that has bytes to process consumes  *)
(* some), so that the valid frame behind it is decoded once read.          *)
(***************************************************************************)
Claim_C6 ==
    (pScen.kind = "long" /\ pScen.payloadLen > RxPacketSize) =>
        /\ pipe.rxPacketLen < RxPacketSize
        /\ pLast.avail > 0 => pLast.consumed > 0
        /\ (AllRead /\ rxFrameBuf = <<>>) => \E i \in 1..Len(pipe.delivered) : pipe.delivered[i] = MessageB

\* the packet buffer is full, the context is in mid-frame, and a call with
\* bytes to process consumed none of them
Wit_C6 ==
    /\ pScen.kind = "long"
    /\ pScen.payloadLen > RxPacketSize
    /\ pipe.rxPacketLen = RxPacketSize
    /\ ~hdlc_UnpackDone(pipe.rxHdlcContext)
    /\ pLast.avail > 0
    /\ pLast.consumed = 0
    /\ pipe.delivered = <<>>
    /\ pipe.errors = <<>>

MaxFileBytes == 4

InitFile ==
    /\ \E ok \in BOOLEAN, old \in {<<>>, <<111>>} :
          file = [FileStatics EXCEPT !.openOk = ok, !.disk = old]
    /\ fLast = [op |-> "init", pre |-> FileStatics, data |-> <<>>, base |-> -1]
    /\ HdlcIdle
    /\ CodecIdle
    /\ PipeIdle
    /\ SendIdle
    /\ WriteIdle
    /\ StreamIdle
    /\ PackIdle
    /\ CrcIdle
    /\ RespondIdle

\* the length of the output file when a setup left a file name, -1 after a
\* setup that left none
SetupBase(fs) == IF fs.FileName # <<>> THEN Len(fs.disk) ELSE -1

FileSetup(namePtr, fileSize, isAuto) ==
    /\ file' = orp_FileDataSetup(file, namePtr, fileSize, isAuto)
    /\ fLast' = [op |-> "setup", pre |-> file, data |-> <<>>,
                 base |-> SetupBase(orp_FileDataSetup(file, namePtr, fileSize,
                                                      isAuto))]
    /\ UNCHANGED OtherThanFile

FileCache(data) ==
    /\ file.ReceivedFileBytes + Len(data) <= MaxFileBytes
    /\ Len(file.disk) + Len(data) <= MaxFileBytes
    /\ file' = orp_FileDataCache(file, Ptr(data), Len(data))
    /\ fLast' = [op |-> "cache", pre |-> file, data |-> data, base |-> fLast.base]
    /\ UNCHANGED OtherThanFile

FileFlush ==
    /\ file' = orp_FileDataFlush(file)
    /\ fLast' = [op |-> "flush", pre |-> file, data |-> <<>>, base |-> fLast.base]
    /\ UNCHANGED OtherThanFile

FileSetAuto(isAuto) ==
    /\ file' = [file EXCEPT !.AutoMode = isAuto]
    /\ fLast' = [op |-> "auto", pre |-> file, data |-> <<>>, base |-> fLast.base]
    /\ UNCHANGED OtherThanFile

NextFile ==
    \/ \E namePtr \in {NULL, Ptr(<<>>), Ptr(FileNameF)}, fileSize \in FileSizes,
          isAuto \in BOOLEAN : FileSetup(namePtr, fileSize, isAuto)
    \/ \E data \in FileChunks : FileCache(data)
    \/ FileFlush
    \/ \E isAuto \in BOOLEAN : FileSetAuto(isAuto)

SpecFile == InitFile /\ [][NextFile]_vars

(***************************************************************************)
(* SpecSend: a request made through the client API (orpClient.c) is        *)
(* encoded, framed for the mode of the build (HDLC or AT) and written to   *)
(* the transport with one write(), whose return value rc is the            *)
(* environment's choice.                                                   *)
(***************************************************************************)
LE_FAULT == -6

\* sizeof(txFrameBuf) for a packet buffer of CodecBufLen bytes
TxFrameSize == (CodecBufLen * 2) + HDLC_OVERHEAD_BYTES_COUNT

\* the message each call hands to orp_ClientMessageSend
orp_Push(path, dataType, timestampSec, value) ==
    [orp_MessageInit(ORP_RQST_PUSH, 0) EXCEPT
        !.dataType = dataType, !.path = path, !.timestamp = timestampSec,
        !.data = IF value # NULL THEN value ELSE @,
        !.dataLen = IF value # NULL THEN Len(Deref(value)) ELSE @]

orp_Get(path) == [orp_MessageInit(ORP_RQST_GET, 0) EXCEPT !.path = path]

orp_SetJsonExample(path, example) ==
    [orp_MessageInit(ORP_RQST_EXAMPLE_SET, 0) EXCEPT
        !.path = path, !.dataType = ORP_IO_DATA_TYPE_JSON, !.data = example]

CallMessage(c) ==
    IF c.fn = "orp_Push"
    THEN orp_Push(c.path, c.dataType, c.timestamp, c.value)
    ELSE IF c.fn = "orp_Get" THEN orp_Get(c.path)
    ELSE orp_SetJsonExample(c.path, c.value)

\* rc is what write() returned for dataLen bytes
orp_Transmit(dataLen, rc) == (IF dataLen # 0 THEN rc ELSE -1) > 0

\* the frame of a packet in a mode, ok FALSE when frameLen < 0
Enframe(md, packet) ==
    IF md = "HDLC"
    THEN [ok |-> orp_HdlcEnframe(TxFrameSize, packet) # <<>>,
          frame |-> orp_HdlcEnframe(TxFrameSize, packet)]
    ELSE [ok |-> orp_AtEnframe(TxFrameSize, packet).ret >= 0,
          frame |-> orp_AtEnframe(TxFrameSize, packet).dest]

\* orp_ClientMessageSend after the encoding: the packet, the frame handed
\* to write(), the result returned and what was printed as a failure
MessageSent(enc, fr, rc) ==
    IF ~enc.ok
    THEN [pkt |-> <<>>, frame |-> <<>>, rc |-> -1, result |-> LE_FAULT,
          errors |-> <<"Failed to encode request">>]
    ELSE IF ~fr.ok
    THEN [pkt |-> enc.pkt, frame |-> <<>>, rc |-> -1, result |-> LE_FAULT,
          errors |-> <<"Failed to frame packet">>]
    ELSE IF ~orp_Transmit(Len(fr.frame), rc)
    THEN [pkt |-> enc.pkt, frame |-> fr.frame, rc |-> rc, result |-> LE_FAULT,
          errors |-> <<"Failed to send request">>]
    ELSE [pkt |-> enc.pkt, frame |-> fr.frame, rc |-> rc, result |-> LE_OK,
          errors |-> <<>>]

MessageSend(message, md, rc) ==
    MessageSent(orp_ProtocolEncode_v1(CodecBufLen, message),
                Enframe(md, orp_ProtocolEncode_v1(CodecBufLen, message).pkt),
                rc)

\* "/a", "/a/b"
SendPaths == {Ptr(<<47, 97>>), Ptr(<<47, 97, 47, 98>>)}

\* no value, "1", "123"
PushValues == {NULL, Ptr(<<49>>), Ptr(<<49, 50, 51>>)}

\* "{}", "[1]", and the empty string
JsonExamples == {Ptr(<<123, 125>>), Ptr(<<91, 49, 93>>), Ptr(<<>>)}

SendCalls ==
    {[fn |-> "orp_Push", path |-> p, dataType |-> dt, timestamp |-> ts,
      value |-> v] :
        p \in SendPaths, dt \in {ORP_IO_DATA_TYPE_NUMERIC, ORP_IO_DATA_TYPE_STRING},
        ts \in Times, v \in PushValues}
    \cup {[NoCall EXCEPT !.fn = "orp_Get", !.path = p] : p \in SendPaths}
    \cup {[NoCall EXCEPT !.fn = "orp_SetJsonExample", !.path = p, !.value = e] :
            p \in SendPaths, e \in JsonExamples}

InitSend ==
    /\ sPhase = "call"
    /\ sCall \in SendCalls
    /\ sMode \in {"HDLC", "AT"}
    /\ sTx = NoSend
    /\ HdlcIdle
    /\ CodecIdle
    /\ PipeIdle
    /\ FileIdle
    /\ WriteIdle
    /\ StreamIdle
    /\ PackIdle
    /\ CrcIdle
    /\ RespondIdle

\* write() returns rc, at most the length of the frame; a call that fails
\* before the write returns without it
Written(enc, fr) ==
    \E rc \in -1..Len(fr.frame) : sTx' = MessageSent(enc, fr, rc)

Framed(md, enc) == Written(enc, Enframe(md, enc.pkt))

\* the call runs to its return
ClientSend ==
    /\ sPhase = "call"
    /\ Framed(sMode, orp_ProtocolEncode_v1(CodecBufLen, CallMessage(sCall)))
    /\ sPhase' = "sent"
    /\ UNCHANGED <<sCall, sMode>>
    /\ UNCHANGED OtherThanSend

NextSend == ClientSend

SpecSend == InitSend /\ [][NextSend]_vars

(***************************************************************************)
(* SpecWrite: one call of orp_FileDataCache or orp_FileDataFlush           *)
(* (orpFile.c) with the loop of FileDataWrite taken one write() at a time. *)
(* wFs holds the statics and the file, wLen the local len, wLog the number *)
(* of "Failed to write data: Error" lines printed, counted modulo          *)
(* MaxLog + 1.  wDev is the output device: on "ok" a write() takes one or  *)
(* more of the bytes left, on "failing" every write() returns -1.          *)
(***************************************************************************)
MaxLog == 2

\* FileDataWrite reaches its loop
WriteEntered(fs, dataPtr, dataLen) ==
    /\ fs.FileName # <<>>
    /\ dataLen # 0
    /\ dataPtr # NULL
    /\ fs.openOk

\* the statics after orp_FileDataSetup, and after a chunk was staged
SetupStates ==
    {orp_FileDataSetup([FileStatics EXCEPT !.openOk = ok], Ptr(n), z, a) :
        ok \in BOOLEAN, n \in {<<>>, FileNameF}, z \in FileSizes, a \in BOOLEAN}

WriteStates ==
    SetupStates
    \cup {orp_FileDataCache(fs, Ptr(d), Len(d)) :
            fs \in {f \in SetupStates : ~f.AutoMode}, d \in FileChunks}

WriteCalls ==
    {[op |-> "cache", data |-> Ptr(d)] : d \in FileChunks \cup {<<97, 98, 99>>}}
    \cup {[op |-> "flush", data |-> NULL]}

InitWrite ==
    /\ wPhase = "call"
    /\ wFs \in WriteStates
    /\ \E c \in WriteCalls : wCall = [op |-> c.op, data |-> c.data, pre |-> wFs]
    /\ wLen = 0
    /\ wLog = 0
    /\ wDev \in {"ok", "failing"}
    /\ HdlcIdle
    /\ CodecIdle
    /\ PipeIdle
    /\ FileIdle
    /\ SendIdle
    /\ StreamIdle
    /\ PackIdle
    /\ CrcIdle
    /\ RespondIdle

\* the bytes handed to FileDataWrite
WriteData ==
    IF wCall.op = "cache" THEN Deref(wCall.data) ELSE wFs.IncomingFileData

\* orp_FileDataCache up to the loop of FileDataWrite, or to its return when
\* the loop is not reached
CacheCall ==
    /\ wPhase = "call"
    /\ wCall.op = "cache"
    /\ IF wFs.AutoMode
          /\ WriteEntered(wFs, wCall.data, Len(Deref(wCall.data)))
       THEN wPhase' = "write" /\ UNCHANGED wFs
       ELSE /\ wFs' = orp_FileDataCache(wFs, wCall.data, Len(Deref(wCall.data)))
            /\ wPhase' = "returned"
    /\ UNCHANGED <<wCall, wLen, wLog, wDev>>
    /\ UNCHANGED OtherThanWrite

\* orp_FileDataFlush, likewise
FlushCall ==
    /\ wPhase = "call"
    /\ wCall.op = "flush"
    /\ IF /\ ~wFs.AutoMode
          /\ wFs.IncomingFileDataLen # 0
          /\ WriteEntered(wFs, Ptr(wFs.IncomingFileData), wFs.IncomingFileDataLen)
       THEN wPhase' = "write" /\ UNCHANGED wFs
       ELSE /\ wFs' = orp_FileDataFlush(wFs)
            /\ wPhase' = "returned"
    /\ UNCHANGED <<wCall, wLen, wLog, wDev>>
    /\ UNCHANGED OtherThanWrite

\* one pass of while (len < dataLen): write() returns temp
WriteStep(temp) ==
    /\ wPhase = "write"
    /\ wLen < Len(WriteData)
    /\ IF wDev = "failing" THEN temp = -1
       ELSE temp >= 1 /\ temp <= Len(WriteData) - wLen
    /\ IF temp = -1
       THEN /\ wLog' = (wLog + 1) % (MaxLog + 1)
            /\ UNCHANGED <<wLen, wFs>>
       ELSE /\ wLen' = wLen + temp
            /\ wFs' = [wFs EXCEPT
                         !.disk = @ \o SubSeq(WriteData, wLen + 1, wLen + temp)]
            /\ UNCHANGED wLog
    /\ UNCHANGED <<wPhase, wCall, wDev>>
    /\ UNCHANGED OtherThanWrite

\* the loop is left: close, return len, and the rest of the caller
WriteReturn ==
    /\ wPhase = "write"
    /\ wLen >= Len(WriteData)
    /\ wFs' = IF wCall.op = "cache"
              THEN CacheCount(wFs, wLen, Len(WriteData))
              ELSE [wFs EXCEPT !.IncomingFileDataLen = 0,
                               !.IncomingFileData = <<>>]
    /\ wPhase' = "returned"
    /\ UNCHANGED <<wCall, wLen, wLog, wDev>>
    /\ UNCHANGED OtherThanWrite

NextWrite ==
    \/ CacheCall
    \/ FlushCall
    \/ \E temp \in -1..MaxFileBytes : WriteStep(temp)
    \/ WriteReturn

\* the process runs whenever it can take a step
SpecWrite == InitWrite /\ [][NextWrite]_vars /\ WF_vars(NextWrite)

(***************************************************************************)
(* SpecStream: hdlc_Unpack is fed a byte stream that need not be a frame,  *)
(* 1..MaxChunk bytes per call, on the context uCtx kept between the calls. *)
(* uRef is a second context given the same calls; it is reset by hdlc_Init *)
(* whenever uCtx is back in HDLC_INIT.  uOut holds the bytes emitted for   *)
(* the frame in progress and uDone the calls that ended a frame, by        *)
(* completion or by error.                                                 *)
(***************************************************************************)
\* FLAG, ESC and 0xFF
StreamBytes == {HDLC_FRAME_OCTET, HDLC_ESC_OCTET, 255}

MaxHead == 4

MaxTail == 3

\* the most bytes handed to one call
MaxChunk == 2

\* payloads of the valid frames: none, "A", FLAG "A"
StreamPayloads == {<<>>, <<65>>, <<126, 65>>}

StreamFrame(payload) ==
    orp_HdlcEnframe((2 * Len(payload)) + HDLC_OVERHEAD_BYTES_COUNT, payload)

\* any bytes, then a valid frame or some more bytes
Streams ==
    {a \o b : a \in SeqsUpTo(StreamBytes, MaxHead),
              b \in SeqsUpTo(StreamBytes, MaxTail)
                    \cup {StreamFrame(pl) : pl \in StreamPayloads}}

InitStream ==
    /\ uAll \in Streams
    /\ uPos = 0
    /\ uCtx = hdlc_Init
    /\ uRef = hdlc_Init
    /\ uLast = [pre |-> hdlc_Init, src |-> <<>>, real |-> NoUnpack,
                ref |-> NoUnpack]
    /\ uOut = <<>>
    /\ uDone = <<>>
    /\ HdlcIdle
    /\ CodecIdle
    /\ PipeIdle
    /\ FileIdle
    /\ SendIdle
    /\ WriteIdle
    /\ PackIdle
    /\ CrcIdle
    /\ RespondIdle

\* what a caller sees of a call
Seen(r) ==
    [ret |-> r.ret, dest |-> r.dest, srclen |-> r.srclen,
     done |-> hdlc_UnpackDone(r.ctx)]

\* the state after a call on uCtx returned r, the same call on the second
\* context returned q
Unpacked(src, r, q) ==
    /\ uCtx' = r.ctx
    /\ uRef' = q.ctx
    /\ uPos' = uPos + r.srclen
    /\ uLast' = [pre |-> uCtx, src |-> src, real |-> Seen(r), ref |-> Seen(q)]
    /\ uOut' = IF hdlc_UnpackDone(r.ctx) THEN <<>>
               ELSE IF r.ret >= 0 THEN uOut \o r.dest ELSE uOut
    /\ uDone' = IF hdlc_UnpackDone(r.ctx) /\ r.srclen > 0
                THEN Append(uDone, [at |-> uPos + r.srclen, ret |-> r.ret,
                                    out |-> IF r.ret >= 0 THEN uOut \o r.dest
                                            ELSE <<>>])
                ELSE uDone

\* hdlc_Unpack of the next n bytes of the stream
StreamUnpack(n) ==
    /\ n \in 1..(Len(uAll) - uPos)
    /\ Unpacked(SubSeq(uAll, uPos + 1, uPos + n),
                hdlc_Unpack(uCtx, HBufSize - Len(uOut),
                            SubSeq(uAll, uPos + 1, uPos + n)),
                hdlc_Unpack(IF hdlc_UnpackDone(uCtx) THEN hdlc_Init ELSE uRef,
                            HBufSize - Len(uOut),
                            SubSeq(uAll, uPos + 1, uPos + n)))
    /\ UNCHANGED uAll
    /\ UNCHANGED OtherThanStream

NextStream == \E n \in 1..MaxChunk : StreamUnpack(n)

SpecStream == InitStream /\ [][NextStream]_vars

(***************************************************************************)
(* SpecPack: a payload is framed either by a caller that streams it        *)
(* through hdlc_Pack in pieces, into destination buffers of any size, and  *)
(* ends with hdlc_PackFinalize, or by orp_HdlcEnframe with a frame buffer  *)
(* of any size.  kFrame holds the bytes produced so far, kPos the source   *)
(* bytes hdlc_Pack reported as packed.                                     *)
(***************************************************************************)
\* the largest destination handed to one call of hdlc_Pack
MaxRoom == 3

InitPack ==
    /\ kPhase = "new"
    /\ kPayload \in SeqsUpTo(ByteSet, MaxLen)
    /\ kPos = 0
    /\ kCtx = hdlc_Init
    /\ kFrame = <<>>
    /\ kTrace = NoTrace
    /\ kEn = NoEnframe
    /\ HdlcIdle
    /\ CodecIdle
    /\ PipeIdle
    /\ FileIdle
    /\ SendIdle
    /\ WriteIdle
    /\ StreamIdle
    /\ CrcIdle
    /\ RespondIdle

\* hdlc_Pack returned r for a piece of n bytes
PackedPiece(n, r) ==
    /\ kCtx' = r.ctx
    /\ kFrame' = kFrame \o r.dest
    /\ kPos' = kPos + r.srclen
    /\ kTrace' = [split |-> kTrace.split \/ kPhase = "packing",
                  esc |-> kTrace.esc \/ r.ctx.state = "PACK_ESCAPED",
                  full |-> kTrace.full \/ r.srclen < n]

\* hdlc_Pack of the next n bytes of the payload into a destination of room
\* bytes; the caller goes on from the bytes reported as packed
PackPiece(n, room) ==
    /\ kPhase \in {"new", "packing"}
    /\ n \in 1..(Len(kPayload) - kPos)
    /\ PackedPiece(n, hdlc_Pack(kCtx, room, SubSeq(kPayload, kPos + 1, kPos + n)))
    /\ kPhase' = "packing"
    /\ UNCHANGED <<kPayload, kEn>>
    /\ UNCHANGED OtherThanPack

PackFinalized(fin) ==
    /\ kCtx' = fin.ctx
    /\ kFrame' = IF fin.ret >= 0 THEN kFrame \o fin.dest ELSE kFrame
    /\ kPhase' = IF fin.ret >= 0 THEN "final" ELSE "failed"

\* hdlc_PackFinalize once the whole payload is packed
PackFinal(room) ==
    /\ kPhase \in {"new", "packing"}
    /\ kPos = Len(kPayload)
    /\ PackFinalized(hdlc_PackFinalize(kCtx, room))
    /\ UNCHANGED <<kPayload, kPos, kTrace, kEn>>
    /\ UNCHANGED OtherThanPack

\* orp_HdlcEnframe of the payload into a frame buffer of size bytes
PackEnframe(size) ==
    /\ kPhase = "new"
    /\ kEn' = [size |-> size, ret |-> EnframeResult(size, kPayload).ret,
               buf |-> EnframeResult(size, kPayload).buf]
    /\ kPhase' = "enframed"
    /\ UNCHANGED <<kPayload, kPos, kCtx, kFrame, kTrace>>
    /\ UNCHANGED OtherThanPack

NextPack ==
    \/ \E n \in 1..MaxLen, room \in 0..MaxRoom : PackPiece(n, room)
    \/ \E room \in 0..HDLC_OVERHEAD_BYTES_COUNT : PackFinal(room)
    \/ \E size \in 0..(HBufSize + 1) : PackEnframe(size)

SpecPack == InitPack /\ [][NextPack]_vars

(***************************************************************************)
(* SpecCrc: one call of _crc_ccitt_update(xCrc, xByte); xOut is the value  *)
(* returned.  The crc values have one bit set, no bit or all bits in each  *)
(* of their two bytes; the byte is any of the 256.                         *)
(***************************************************************************)
CrcBits == {0, 1, 2, 4, 8, 16, 32, 64, 128, 255}

CrcValues == {(hi * 256) + lo : hi \in CrcBits, lo \in CrcBits}

InitCrc ==
    /\ xPhase = "new"
    /\ xCrc \in CrcValues
    /\ xByte = 0
    /\ xOut = 0
    /\ HdlcIdle
    /\ CodecIdle
    /\ PipeIdle
    /\ FileIdle
    /\ SendIdle
    /\ WriteIdle
    /\ StreamIdle
    /\ PackIdle
    /\ RespondIdle

CrcUpdate(c) ==
    /\ xPhase = "new"
    /\ xByte' = c
    /\ xOut' = crc_ccitt_update(xCrc, c)
    /\ xPhase' = "updated"
    /\ UNCHANGED xCrc
    /\ UNCHANGED OtherThanCrc

NextCrc == \E c \in 0..255 : CrcUpdate(c)

SpecCrc == InitCrc /\ [][NextCrc]_vars

(***************************************************************************)
(* SpecRespond: the application calls orp_Respond(type, status) in the     *)
(* course of a file transfer.  yFs is the file helper's state before the   *)
(* call (after a setup and up to MaxCached cached packets), yOut the       *)
(* client's statics after it.                                              *)
(***************************************************************************)
\* most packets cached before the response
MaxCached == 2

RECURSIVE CachedAll(_, _)
CachedAll(fs, chunks) ==
    IF chunks = <<>> THEN fs
    ELSE CachedAll(orp_FileDataCache(fs, Ptr(Head(chunks)), Len(Head(chunks))),
                   Tail(chunks))

\* the file helper after a setup and some cached packets
RespondFiles ==
    {CachedAll(orp_FileDataSetup([FileStatics EXCEPT !.openOk = ok, !.disk = old],
                                 namePtr, fileSize, isAuto), chunks) :
       ok \in BOOLEAN, old \in {<<>>, <<111>>},
       namePtr \in {Ptr(<<>>), Ptr(FileNameF)}, fileSize \in FileSizes,
       isAuto \in BOOLEAN, chunks \in SeqsUpTo(FileChunks, MaxCached)}

\* OK, LE_NOT_FOUND, LE_FAULT
RespondStatuses == {LE_OK, -1, LE_FAULT}

InitRespond ==
    /\ yPhase = "new"
    /\ yFs \in RespondFiles
    /\ yCall = [type |-> 0, status |-> 0]
    /\ yOut = PipeStatics
    /\ HdlcIdle
    /\ CodecIdle
    /\ PipeIdle
    /\ FileIdle
    /\ SendIdle
    /\ WriteIdle
    /\ StreamIdle
    /\ PackIdle
    /\ CrcIdle

Respond(type, status) ==
    /\ yPhase = "new"
    /\ yCall' = [type |-> type, status |-> status]
    /\ yOut' = orp_Respond([PipeStatics EXCEPT !.fs = yFs], type, status)
    /\ yPhase' = "responded"
    /\ UNCHANGED yFs
    /\ UNCHANGED OtherThanRespond

NextRespond ==
    \E type \in PacketTypes, status \in RespondStatuses : Respond(type, status)

SpecRespond == InitRespond /\ [][NextRespond]_vars

\* a cache call with auto mode off holds the data in the staging buffer and
\* leaves the file alone
CacheStages ==
    (fLast.op = "cache" /\ ~fLast.pre.AutoMode) =>
        /\ file.IncomingFileData = fLast.data
        /\ file.IncomingFileDataLen = Len(fLast.data)
        /\ file.disk = fLast.pre.disk

\* a flush call with auto mode off and bytes staged
Flushed ==
    /\ fLast.op = "flush"
    /\ ~fLast.pre.AutoMode
    /\ fLast.pre.IncomingFileDataLen # 0

\* the flush appended exactly the staged bytes and cleared the staging buffer
FlushCommits ==
    /\ file.disk = fLast.pre.disk \o fLast.pre.IncomingFileData
    /\ file.IncomingFileDataLen = 0
    /\ file.IncomingFileData = <<>>

Encoded == cPhase # "new" /\ cEnc.ok

SyncTypes == {ORP_SYNC_SYN, ORP_SYNC_SYNACK, ORP_SYNC_ACK}

\* the message lacks a field its type requires, and so does its packet
LacksRequired(m) ==
    \/ orp_FieldRequired(m.type, ORP_MASK_PATH) /\ m.path = NULL
    \/ orp_FieldRequired(m.type, ORP_MASK_DATA) /\ m.dataLen = 0
    \/ orp_FieldRequired(m.type, ORP_MASK_TIME) /\ m.timestamp = ORP_TIMESTAMP_INVALID

(***************************************************************************)
(* C11: decoding a packet that lacks a field its packet type requires      *)
(* (PATH, TIME or DATA) returns a decode error.                            *)
(***************************************************************************)
Claim_C11 ==
    (cPhase = "decoded" /\ LacksRequired(cMsg)) => ~cDec.ok

\* a push request without its path was decoded without error
Wit_C11 ==
    /\ cPhase = "decoded"
    /\ cMsg.type = ORP_RQST_PUSH
    /\ cMsg.path = NULL
    /\ Len(cEnc.pkt) = ORP_PACKET_LEN_MIN
    /\ cDec.ok
    /\ cDec.msg.path = Ptr(<<>>)

(***************************************************************************)
(* C12: in every packet the encoder produces, for every packet type, a     *)
(* data field D is the last field: the packet ends with D and the data     *)
(* bytes placed in it.                                                     *)
(***************************************************************************)
Claim_C12 ==
    (Encoded /\ cMsg.dataLen > 0) =>
        \E n \in 0..cMsg.dataLen :
            /\ n + 1 <= Len(cEnc.pkt)
            /\ Drop(cEnc.pkt, Len(cEnc.pkt) - (n + 1))
                 = <<ORP_FIELD_ID_DATA>> \o Take(Deref(cMsg.data), n)

\* a SYN with data and counters: the packet ends with the received count
Wit_C12 ==
    /\ Encoded
    /\ cMsg.type = ORP_SYNC_SYN
    /\ cMsg.dataLen = 2
    /\ cMsg.receivedCount = 7
    /\ Drop(cEnc.pkt, Len(cEnc.pkt) - 3) = <<ORP_VARLENGTH_SEPARATOR, ORP_FIELD_ID_RECV_COUNT, 55>>

\* the number of data bytes in the packet: its length less that of the
\* packet of the same message without data, the separator and the D
DataPlaced ==
    (Len(cEnc.pkt)
       - Len(orp_ProtocolEncode_v1(CodecBufLen, [cMsg EXCEPT !.dataLen = 0]).pkt))
    - (IF Len(orp_ProtocolEncode_v1(CodecBufLen, [cMsg EXCEPT !.dataLen = 0]).pkt)
            > ORP_OFFSET_VARLENGTH THEN 2 ELSE 1)

(***************************************************************************)
(* C13: when the encoder emits the data field, msg.dataLen is decremented  *)
(* by exactly the number of data bytes placed in the packet, so that it is *)
(* the number of data bytes still to be sent (0 when all the data fitted). *)
(***************************************************************************)
Claim_C13 ==
    (Encoded /\ cMsg.dataLen > 0) =>
        /\ cEnc.dataLen = cMsg.dataLen - DataPlaced
        /\ DataPlaced = cMsg.dataLen => cEnc.dataLen = 0

\* a value longer than the buffer fills the packet, and dataLen is one less
\* than the number of bytes that remain
Wit_C13 ==
    /\ Encoded
    /\ cMsg = LongExample
    /\ Len(cEnc.pkt) = CodecBufLen
    /\ DataPlaced < cMsg.dataLen
    /\ cEnc.dataLen = (cMsg.dataLen - DataPlaced) - 1

(***************************************************************************)
(* C14: for every status s in 0, -1, ..., -22 the status byte is 0x40 - s  *)
(* and decoding it returns s.                                              *)
(***************************************************************************)
Thm_C14 ==
    (Encoded /\ orp_FieldRequired(cMsg.type, ORP_MASK_STATUS)) =>
        /\ cEnc.pkt[ORP_OFFSET_STATUS + 1] = ORP_RESP_STATUS_OK - cMsg.status
        /\ orp_StatusDecode(cEnc.pkt) = cMsg.status
        /\ cPhase = "decoded" => cDec.msg.status = cMsg.status

\* the status -22 came back from the byte 0x56
Wit_C14 ==
    /\ cPhase = "decoded"
    /\ cMsg.type = ORP_RESP_PUSH
    /\ cMsg.status = -22
    /\ cEnc.pkt[ORP_OFFSET_STATUS + 1] = 86
    /\ cDec.msg.status = -22

(***************************************************************************)
(* C15: for every v in 0..35, decoding the base-36 character that encodes  *)
(* v returns v (checked on the event of a file control notification).      *)
(***************************************************************************)
Claim_C15 ==
    (Encoded /\ orp_FieldRequired(cMsg.type, ORP_MASK_EVENT)) =>
        /\ orp_EnumDecode(cEnc.pkt, 1).ok
        /\ orp_EnumDecode(cEnc.pkt, 1).value = cMsg.status
        /\ cPhase = "decoded" => cDec.msg.status = cMsg.status

\* the event 10 was written as 'A' and read back as 17
Wit_C15 ==
    /\ cPhase = "decoded"
    /\ cMsg.type = ORP_NTFY_FILE_CONTROL
    /\ cMsg.status = 10
    /\ cEnc.pkt[2] = 65
    /\ cDec.ok
    /\ cDec.msg.status = 17

(***************************************************************************)
(* C16: byte 1 of every encoded sync packet (SYN, SYNACK, ACK) is the      *)
(* base-36 character of the version of the message: '0' for V1, '1' for    *)
(* V2.                                                                     *)
(***************************************************************************)
Claim_C16 ==
    (Encoded /\ cMsg.type \in SyncTypes) =>
        cEnc.pkt[ORP_OFFSET_VERSION + 1] = 48 + cMsg.version

\* a SYN of version V1 carries '1'
Wit_C16 ==
    /\ Encoded
    /\ cMsg.type = ORP_SYNC_SYN
    /\ cMsg.version = ORP_PROTOCOL_V1
    /\ cEnc.pkt[ORP_OFFSET_VERSION + 1] = 49

\* the fields M, S, R of the counters that are not negative, with commas
\* between them
RECURSIVE JoinFields(_)
JoinFields(fs) ==
    IF fs = <<>> THEN <<>>
    ELSE IF Len(fs) = 1 THEN <<fs[1].id>> \o FmtInt(fs[1].count)
    ELSE <<fs[1].id>> \o FmtInt(fs[1].count) \o <<ORP_VARLENGTH_SEPARATOR>>
         \o JoinFields(Tail(fs))

SyncFields(m) ==
    JoinFields(SelectSeq(<<[id |-> ORP_FIELD_ID_MTU, count |-> m.mtu],
                           [id |-> ORP_FIELD_ID_SENT_COUNT, count |-> m.sentCount],
                           [id |-> ORP_FIELD_ID_RECV_COUNT, count |-> m.receivedCount]>>,
                         LAMBDA f : f.count >= 0))

\* a sync message as orp_SyncSend builds it
PlainSync(m) ==
    /\ m.type \in SyncTypes
    /\ m.timestamp = ORP_TIMESTAMP_INVALID
    /\ m.path = NULL
    /\ m.dataLen = 0

(***************************************************************************)
(* C17, as stated: in every sync packet (SYN, SYNACK, ACK) the counters    *)
(* mtu, sentCount and receivedCount that are not negative are emitted as   *)
(* the fields M, S, R in that order, separated by commas, and the negative *)
(* ones are left out.                                                      *)
(***************************************************************************)
Claim_C17 ==
    (cPhase # "new" /\ PlainSync(cMsg)) =>
        /\ cEnc.ok
        /\ Drop(cEnc.pkt, ORP_OFFSET_VARLENGTH) = SyncFields(cMsg)

(***************************************************************************)
(* C17, amended: that holds of SYN and SYNACK; an ACK is the four fixed    *)
(* bytes only, whatever its counters.                                      *)
(***************************************************************************)
Thm_C17 ==
    (cPhase # "new" /\ PlainSync(cMsg)) =>
        /\ cEnc.ok
        /\ Drop(cEnc.pkt, ORP_OFFSET_VARLENGTH)
             = IF cMsg.type = ORP_SYNC_ACK THEN <<>> ELSE SyncFields(cMsg)
        /\ (cMsg.type # ORP_SYNC_ACK /\ cMsg.mtu = 512 /\ cMsg.sentCount = 10
              /\ cMsg.receivedCount = 9) =>
                Drop(cEnc.pkt, ORP_OFFSET_VARLENGTH) = 
                  <<77, 53, 49, 50, 44, 83, 49, 48, 44, 82, 57>>

\* an ACK with mtu 512, sent 10, received 9 has no field at all
Wit_C17 ==
    /\ Encoded
    /\ PlainSync(cMsg)
    /\ cMsg.type = ORP_SYNC_ACK
    /\ cMsg.mtu = 512 /\ cMsg.sentCount = 10 /\ cMsg.receivedCount = 9
    /\ Len(cEnc.pkt) = ORP_PACKET_LEN_MIN

\* s occurs in pkt
Occurs(s, pkt) ==
    \E i \in 0..(Len(pkt) - Len(s)) : SubSeq(pkt, i + 1, i + Len(s)) = s

(***************************************************************************)
(* C18: a create request with a path and a non-empty unit string is        *)
(* encoded with the units as a U field after the path; INPUT_CREATE,       *)
(* BOOLEAN, "/x", "mV" gives 'I' 'B' 0 0 "P/x,UmV".                        *)
(***************************************************************************)
Claim_C18 ==
    (/\ cPhase # "new"
     /\ cMsg.type \in {ORP_RQST_INPUT_CREATE, ORP_RQST_OUTPUT_CREATE,
                       ORP_RQST_SENSOR_CREATE}
     /\ cMsg.path # NULL
     /\ cMsg.unit # NULL
     /\ cMsg.unit # Ptr(<<>>)) =>
        /\ cEnc.ok
        /\ Occurs(<<ORP_FIELD_ID_PATH>> \o Deref(cMsg.path)
                    \o <<ORP_VARLENGTH_SEPARATOR, ORP_FIELD_ID_UNITS>>
                    \o Deref(cMsg.unit), cEnc.pkt)
        /\ cMsg = CreateExample =>
              cEnc.pkt = <<73, 66, 0, 0>> \o <<80, 47, 120, 44, 85, 109, 86>>

\* the example is encoded as 'I' 'B' 0 0 "P/x": the units are left out
Wit_C18 ==
    /\ Encoded
    /\ cMsg = CreateExample
    /\ cEnc.pkt = <<73, 66, 0, 0>> \o <<80, 47, 120>>

(***************************************************************************)
(* C19, as stated: PUSH, NUMERIC, "/a/b", 1541112861.0, "123", sequence    *)
(* number 0 is encoded as 'P' 'N' 0 0 "T1541112861.0,P/a/b,D123".          *)
(***************************************************************************)
Claim_C19 ==
    (cPhase # "new" /\ cMsg = PushExample) =>
        /\ cEnc.ok
        /\ cEnc.pkt = <<80, 78, 0, 0>> \o 
                       <<84, 49, 53, 52, 49, 49, 49, 50, 56, 54, 49, 46, 48, 44, 80, 47, 97, 47, 98, 44, 68, 49, 50, 51>>

(***************************************************************************)
(* C19, amended: the timestamp is written with six decimals: the packet is *)
(* 'P' 'N' 0 0 "T1541112861.000000,P/a/b,D123".                            *)
(***************************************************************************)
Thm_C19 ==
    (cPhase # "new" /\ cMsg = PushExample) =>
        /\ cEnc.ok
        /\ cEnc.pkt = <<80, 78, 0, 0>> \o 
                       <<84, 49, 53, 52, 49, 49, 49, 50, 56, 54, 49, 46, 48, 48, 48, 48, 48, 48, 44, 80, 47, 97, 47, 98, 44, 68, 49, 50, 51>>

\* the example was encoded into 33 bytes
Wit_C19 ==
    /\ Encoded
    /\ cMsg = PushExample
    /\ Len(cEnc.pkt) = 33
    /\ SubSeq(cEnc.pkt, 5, 22) = 
         <<84, 49, 53, 52, 49, 49, 49, 50, 56, 54, 49, 46, 48, 48, 48, 48, 48, 48>>


(***************************************************************************)
(* C20, under SpecHdlc: hdlc_UnpackDone is true exactly when the deframer  *)
(* is back in HDLC_INIT after completing a frame; on a context on which no *)
(* frame has been completed since hdlc_Init it is false.                   *)
(***************************************************************************)
Claim_C20 ==
    hPhase = "packed" =>
        (hdlc_UnpackDone(hCtx) <=> (hRest = <<>> /\ ~hErr))

\* the context is fresh from hdlc_Init, no byte of the frame was fed to it,
\* and hdlc_UnpackDone is true
Wit_C20 ==
    /\ hPhase = "packed"
    /\ hFrame # <<>>
    /\ hRest = hFrame
    /\ hOut = <<>>
    /\ hCtx = hdlc_Init
    /\ hdlc_UnpackDone(hCtx)


(***************************************************************************)
(* C21, under SpecHdlc: the count of source bytes hdlc_Unpack reports as   *)
(* consumed does not include the trailing frame octet that ends the frame. *)
(***************************************************************************)
Claim_C21 ==
    /\ hWhole # <<>> => hWhole[1].srclen = Len(hFrame) - 1
    /\ (hPhase = "packed" /\ hRest # hFrame /\ ~hErr /\ hdlc_UnpackDone(hCtx)) =>
           hRest = <<HDLC_FRAME_OCTET>>

\* the whole frame, its trailing frame octet included, is reported consumed
Wit_C21 ==
    /\ hWhole # <<>>
    /\ hPayload # <<>>
    /\ hFrame[Len(hFrame)] = HDLC_FRAME_OCTET
    /\ hdlc_UnpackDone(hWhole[1].ctx)
    /\ hWhole[1].srclen = Len(hFrame)

\* the bytes of a frame between its frame octets, escapes undone
RECURSIVE Unescaped(_)
Unescaped(s) ==
    IF s = <<>> THEN <<>>
    ELSE IF s[1] = HDLC_ESC_OCTET /\ Len(s) > 1
         THEN <<Xor8(s[2], HDLC_ESC_MASK)>> \o Unescaped(Drop(s, 2))
         ELSE <<s[1]>> \o Unescaped(Tail(s))

FrameBody == Unescaped(SubSeq(hFrame, 2, Len(hFrame) - 1))

IsDStart(pkt, i) ==
    /\ pkt[i] = ORP_FIELD_ID_DATA
    /\ i = ORP_OFFSET_VARLENGTH + 1 \/ pkt[i - 1] = ORP_VARLENGTH_SEPARATOR

\* the places of the D identifiers that start a field
DStarts(pkt) ==
    {i \in (ORP_OFFSET_VARLENGTH + 1)..Len(pkt) : IsDStart(pkt, i)}

\* the first of them
DStart(pkt) ==
    CHOOSE i \in DStarts(pkt) : \A j \in DStarts(pkt) : i <= j

(***************************************************************************)
(* C23, under SpecCodec: on decode, once the identifier D is read, every   *)
(* remaining byte of the packet up to the packet length, commas and field  *)
(* identifiers included, is returned unmodified as the data, and dataLen   *)
(* is the number of those bytes.                                           *)
(***************************************************************************)
Thm_C23 ==
    (/\ cPhase = "decoded"
     /\ cDec.ok \/ cDec.msg.dataLen > 0
     /\ DStarts(cEnc.pkt) # {}) =>
        /\ cDec.msg.data = Ptr(Drop(cEnc.pkt, DStart(cEnc.pkt)))
        /\ cDec.msg.dataLen = Len(cEnc.pkt) - DStart(cEnc.pkt)
        /\ SubSeq(cDec.buf, DStart(cEnc.pkt) + 1, Len(cEnc.pkt))
             = Drop(cEnc.pkt, DStart(cEnc.pkt))

\* the value "1,P2,D" came back whole
Wit_C23 ==
    /\ cPhase = "decoded"
    /\ cMsg = CommaExample
    /\ cDec.ok
    /\ cDec.msg.data = Ptr(<<49, 44, 80, 50, 44, 68>>)
    /\ cDec.msg.dataLen = 6


\* timestamp strings that are not timestamps: empty, a letter, two points,
\* a lone point, a sign, seven decimals, eleven integer digits, 18 digits
MalformedTimes ==
    {<<>>, <<49, 97>>, <<46, 46>>, <<46>>, <<45, 49>>, <<49, 46, 49, 46, 49>>,
     <<49, 46, 49, 50, 51, 52, 53, 54, 55>>,
     <<49, 50, 51, 52, 53, 54, 55, 56, 57, 48, 49>>,
     [i \in 1..18 |-> 49]}

\* the file transfer as the set-up of the scenario left it
FileAtStart ==
    orp_FileDataSetup(FileStatics, Ptr(FileNameF), pScen.fileSize, pScen.isAuto)

Claim_C25 ==
    cPhase = "framed" =>
        /\ cAt.ret = Len(cAt.dest)
        /\ cAt.dest = <<65, 84, 43, 79, 82, 80, 61, 34>>
                      \o [cEnc.pkt EXCEPT ![3] = 48, ![4] = 48]
                      \o <<34, 10>>

(***************************************************************************)
(* C25, amended: the byte at offset 1 is replaced by '0' as well when it   *)
(* is zero.                                                                *)
(***************************************************************************)
Thm_C25 ==
    cPhase = "framed" =>
        /\ cAt.ret = Len(cAt.dest)
        /\ cAt.dest = <<65, 84, 43, 79, 82, 80, 61, 34>>
                      \o [cEnc.pkt EXCEPT ![2] = IF @ = 0 THEN 48 ELSE @,
                                          ![3] = 48, ![4] = 48]
                      \o <<34, 10>>

\* a packet with a zero byte at offset 1 and a sequence number: the frame
\* holds '0' '0' '0' after the type letter
Wit_C25 ==
    /\ cPhase = "framed"
    /\ cEnc.pkt[2] = 0
    /\ cMsg.sequenceNum # 0
    /\ Len(cEnc.pkt) > ORP_PACKET_LEN_MIN
    /\ SubSeq(cAt.dest, 10, 12) = <<48, 48, 48>>
    /\ cAt.dest[Len(cAt.dest)] = 10


\* the message a valid frame of PacketA decodes to
MessageA ==
    [orp_MessageInInit EXCEPT !.type = ORP_RESP_PUSH,
                              !.status = 0, !.sequenceNum = 31744]

(***************************************************************************)
(* C26, under SpecPipe: frame octets (0x7E, '~') between frames are        *)
(* ignored: any number of them before, between or after complete frames    *)
(* does not change the sequence of packets decoded and raises no error.    *)
(***************************************************************************)
Thm_C26 ==
    pScen.kind = "flags" =>
        /\ pipe.errors = <<>>
        /\ pipe.sent = <<>>
        /\ pipe.delivered \in {<<>>, <<MessageA>>, <<MessageA, MessageB>>}
        /\ AllRead =>
              /\ pipe.delivered = <<MessageA, MessageB>>
              /\ rxFrameBuf = <<>>
              /\ pipe.rxPacketLen = 0

\* two frame octets before, between and after the frames, all read: both
\* messages were delivered and the deframer waits in a run of frame octets
Wit_C26 ==
    /\ pScen.kind = "flags"
    /\ pScen.flags = <<MaxFlags, MaxFlags, MaxFlags>>
    /\ AllRead
    /\ pLast.avail < 4
    /\ pipe.delivered = <<MessageA, MessageB>>
    /\ pipe.rxHdlcContext.state = "UNPACK_SOF_FOUND"

(***************************************************************************)
(* C27, under SpecPipe: a deframer that starts receiving in the middle of  *)
(* a frame discards the bytes of that partial frame up to the next frame   *)
(* octet and then deframes the complete frame that follows correctly.      *)
(***************************************************************************)
Thm_C27 ==
    pScen.kind = "partial" =>
        /\ pipe.errors = <<>>
        /\ pipe.delivered \in {<<>>, <<MessageB>>}
        /\ AllRead =>
              /\ pipe.delivered = <<MessageB>>
              /\ rxFrameBuf = <<>>

\* the first three bytes of the first frame were missed and only the second
\* frame was delivered
Wit_C27 ==
    /\ pScen.kind = "partial"
    /\ pScen.payloadLen = 3
    /\ AllRead
    /\ pipe.errors = <<>>
    /\ pipe.delivered = <<MessageB>>


(***************************************************************************)
(* Properties of the send path, under SpecSend.                            *)
(***************************************************************************)
\* the call reached write(), which took fewer bytes than the frame holds
ShortWrite ==
    /\ sPhase = "sent"
    /\ sTx.frame # <<>>
    /\ sTx.rc > 0
    /\ sTx.rc < Len(sTx.frame)

(***************************************************************************)
(* C28, under SpecSend: a short write to the transport is treated as a     *)
(* transport error: the send is reported as failed (LE_FAULT) and the      *)
(* failure is logged, rather than being reported as successful.            *)
(***************************************************************************)
Claim_C28 ==
    ShortWrite =>
        /\ sTx.result = LE_FAULT
        /\ sTx.errors # <<>>

\* write() took one byte of a longer frame and the call returned LE_OK with
\* nothing printed
Wit_C28 ==
    /\ ShortWrite
    /\ sTx.rc = 1
    /\ Len(sTx.frame) > 10
    /\ sTx.result = LE_OK
    /\ sTx.errors = <<>>

\* orp_SetJsonExample was called with a non-empty example and a packet was
\* encoded
ExampleSent ==
    /\ sPhase = "sent"
    /\ sCall.fn = "orp_SetJsonExample"
    /\ sCall.value # NULL
    /\ Deref(sCall.value) # <<>>
    /\ sTx.pkt # <<>>

(***************************************************************************)
(* C30, under SpecSend: orp_SetJsonExample(path, example) with a non-empty *)
(* example sends an EXAMPLE_SET request whose packet carries the bytes of  *)
(* the example as its D field.                                             *)
(***************************************************************************)
Claim_C30 ==
    ExampleSent =>
        /\ sTx.pkt[1] = ORP_PKT_RQST_EXAMPLE_SET
        /\ \E i \in DStarts(sTx.pkt) :
              SubSeq(sTx.pkt, i + 1, Len(sTx.pkt)) = Deref(sCall.value)

\* orp_SetJsonExample("/a", "{}") was sent in full and reported LE_OK; the
\* packet holds the path field and no D field
Wit_C30 ==
    /\ ExampleSent
    /\ sCall.path = Ptr(<<47, 97>>)
    /\ sCall.value = Ptr(<<123, 125>>)
    /\ sTx.result = LE_OK
    /\ sTx.rc = Len(sTx.frame)
    /\ DStarts(sTx.pkt) = {}
    /\ SubSeq(sTx.pkt, 5, Len(sTx.pkt)) = <<ORP_FIELD_ID_PATH, 47, 97>>


(***************************************************************************)
(* Properties of the file writes, under SpecWrite.                         *)
(***************************************************************************)
(***************************************************************************)
(* C29, under SpecWrite: errors of the writes to the output file surface   *)
(* only as log output: a call of orp_FileDataCache or orp_FileDataFlush    *)
(* always returns to its caller, even when every write to the file fails.  *)
(***************************************************************************)
Claim_C29 == (wPhase = "call") ~> (wPhase = "returned")

\* two writes have failed on a device where every write fails; the call is
\* still in the loop of FileDataWrite with nothing written
Wit_C29 ==
    /\ wPhase = "write"
    /\ wDev = "failing"
    /\ wLog = MaxLog
    /\ wLen = 0
    /\ wFs.disk = <<>>


(***************************************************************************)
(* Properties of the deframer on arbitrary streams, under SpecStream.      *)
(***************************************************************************)
\* the context before the last byte the last call took
BeforeLast ==
    hdlc_Unpack(uLast.pre, HBufSize,
                SubSeq(uLast.src, 1, uLast.real.srclen - 1)).ctx

\* the last call ended on a FLAG or an ESC taken in state ESCAPED
EscapedHit ==
    /\ uLast.real.srclen > 0
    /\ BeforeLast.state = "UNPACK_ESCAPED"
    /\ uLast.src[uLast.real.srclen] \in {HDLC_FRAME_OCTET, HDLC_ESC_OCTET}

\* the i-th ended frame is a framing error and what follows it in the stream
\* is the valid frame of payload pl, all of it read
FrameAfterError(i, pl) ==
    /\ i \in DOMAIN uDone
    /\ uDone[i].ret = HDLC_ERROR_FRAME
    /\ SubSeq(uAll, uDone[i].at + 1, Len(uAll)) = StreamFrame(pl)
    /\ uPos = Len(uAll)

(***************************************************************************)
(* C31, under SpecStream: in state ESCAPED an input byte equal to FLAG or  *)
(* ESC makes hdlc_Unpack report a framing error and return the context to  *)
(* INIT; the deframer then searches for the next FLAG again and deframes a *)
(* valid frame that follows correctly.                                     *)
(***************************************************************************)
Thm_C31 ==
    /\ EscapedHit =>
          /\ uLast.real.ret = HDLC_ERROR_FRAME
          /\ uCtx.state = "HDLC_INIT"
    /\ \A i \in 1..(MaxHead + 1), pl \in StreamPayloads :
          FrameAfterError(i, pl) =>
              /\ Len(uDone) = i + 1
              /\ uDone[i + 1].at = Len(uAll)
              /\ uDone[i + 1].ret >= 0
              /\ uDone[i + 1].out = pl

\* FLAG 0xFF ESC ESC was a framing error, and the frame of FLAG "A" that
\* follows was deframed
Wit_C31 ==
    /\ Len(uAll) > 4
    /\ SubSeq(uAll, 1, 4) = <<126, 255, 125, 125>>
    /\ FrameAfterError(1, <<126, 65>>)
    /\ uDone[2].out = <<126, 65>>
    /\ uCtx.state = "HDLC_INIT"

\* the context had ended a frame, by completion or by error, before the
\* last call or a call before it
AfterFrame == uDone # <<>> /\ uDone[1].at <= uPos - uLast.real.srclen

(***************************************************************************)
(* C32, under SpecStream: after hdlc_Unpack has completed a frame or       *)
(* reported an error, the context is equivalent to one reset with          *)
(* hdlc_Init: the bytes fed next yield the same emitted bytes, return      *)
(* values and completion reports on both.                                  *)
(***************************************************************************)
Claim_C32 == AfterFrame => uLast.real = uLast.ref

\* FLAG 0xFF FLAG ended with a CRC error; the same three bytes fed again
\* ended without error on the used context and with a CRC error on the
\* reset one
Wit_C32 ==
    /\ uAll = <<126, 255, 126, 126, 255, 126>>
    /\ uPos = 6
    /\ uDone[1].ret = HDLC_ERROR_CRC
    /\ uLast.real.ret = 0
    /\ uLast.real.done
    /\ uLast.ref.ret = HDLC_ERROR_CRC


(***************************************************************************)
(* Properties of the framer, under SpecPack and SpecHdlc.                  *)
(***************************************************************************)
\* the frame of a payload packed by one hdlc_Pack and hdlc_PackFinalize into
\* a buffer with room for it
WholePacked(pk) == pk.dest \o hdlc_PackFinalize(pk.ctx, HBufSize).dest

WholeFrame(payload) == WholePacked(hdlc_Pack(hdlc_Init, HBufSize, payload))

(***************************************************************************)
(* C33, under SpecPack: packing a payload through several hdlc_Pack calls  *)
(* on one context, the source split into consecutive pieces and the        *)
(* destinations filling up anywhere (between an ESC and the escaped byte   *)
(* included), and then hdlc_PackFinalize, produces the frame bytes of      *)
(* packing the whole payload in a single call.                             *)
(***************************************************************************)
Thm_C33 == kPhase = "final" => kFrame = WholeFrame(kPayload)

\* the payload "]" FLAG was packed in several calls, one of which filled
\* its destination right after the ESC, and finalized
Wit_C33 ==
    /\ kPhase = "final"
    /\ kPayload = <<93, 126>>
    /\ kTrace.split
    /\ kTrace.esc
    /\ kTrace.full
    /\ kFrame = WholeFrame(kPayload)

\* the frame in hFrame: flag, body without flag, flag
FlagsOutside ==
    /\ Len(hFrame) >= 2
    /\ hFrame[1] = HDLC_FRAME_OCTET
    /\ hFrame[Len(hFrame)] = HDLC_FRAME_OCTET
    /\ \A i \in 2..(Len(hFrame) - 1) : hFrame[i] # HDLC_FRAME_OCTET

\* every ESC is followed by a byte that is neither FLAG nor ESC
EscapesPaired ==
    \A i \in 1..Len(hFrame) :
        hFrame[i] = HDLC_ESC_OCTET =>
            /\ i < Len(hFrame)
            /\ hFrame[i + 1] \notin {HDLC_FRAME_OCTET, HDLC_ESC_OCTET}

(***************************************************************************)
(* C36, under SpecHdlc: every frame produced by hdlc_Pack and              *)
(* hdlc_PackFinalize starts with exactly one FLAG and ends with exactly    *)
(* one FLAG, holds no other byte equal to 0x7E, and every 0x7D in it is    *)
(* followed at once by a byte that is neither 0x7E nor 0x7D.               *)
(***************************************************************************)
Thm_C36 == hPhase = "packed" => FlagsOutside /\ EscapesPaired

\* the frame of the payload ESC FLAG ESC: three escapes in the body
Wit_C36 ==
    /\ hPhase = "packed"
    /\ hPayload = <<125, 126, 125>>
    /\ SubSeq(hFrame, 1, 7) = <<126, 125, 93, 125, 94, 125, 93>>
    /\ FlagsOutside

\* orp_HdlcEnframe was called and returned a length
EnframedOk == kPhase = "enframed" /\ kEn.ret # -1

(***************************************************************************)
(* C38, under SpecPack: orp_HdlcEnframe returns -1 or the length of a      *)
(* complete frame (leading FLAG, escaped payload, complete escaped CRC,    *)
(* trailing FLAG); it never returns a non-negative length for a frame      *)
(* whose CRC or trailing FLAG is missing or cut short.                     *)
(***************************************************************************)
Thm_C38 ==
    EnframedOk =>
        /\ kEn.ret = Len(WholeFrame(kPayload))
        /\ SubSeq(kEn.buf, 1, kEn.ret) = WholeFrame(kPayload)

\* the payload of three flags was framed into a buffer of HBufSize bytes,
\* the smallest that takes it: ten bytes, the last one the closing flag
Wit_C38 ==
    /\ EnframedOk
    /\ kPayload = <<126, 126, 126>>
    /\ kEn.size = HBufSize
    /\ kEn.ret = 10
    /\ kEn.buf[10] = HDLC_FRAME_OCTET

\* the texts joined with one separator between neighbours
RECURSIVE JoinTexts(_)
JoinTexts(ts) ==
    IF ts = <<>> THEN <<>>
    ELSE IF Len(ts) = 1 THEN ts[1]
    ELSE ts[1] \o <<ORP_VARLENGTH_SEPARATOR>> \o JoinTexts(Tail(ts))

\* the variable-length fields a message has, in the order of the packet:
\* T, P, D, and for SYN and SYNACK the counters M, S, R
FieldTexts(m) ==
    (IF m.timestamp # ORP_TIMESTAMP_INVALID
     THEN <<(<<ORP_FIELD_ID_TIME>> \o FmtLf(m.timestamp))>> ELSE <<>>)
    \o (IF m.path # NULL THEN <<(<<ORP_FIELD_ID_PATH>> \o Deref(m.path))>> ELSE <<>>)
    \o (IF m.dataLen # 0 THEN <<(<<ORP_FIELD_ID_DATA>> \o Deref(m.data))>> ELSE <<>>)
    \o (IF IsSync(m) /\ m.mtu >= 0
        THEN <<(<<ORP_FIELD_ID_MTU>> \o FmtInt(m.mtu))>> ELSE <<>>)
    \o (IF IsSync(m) /\ m.sentCount >= 0
        THEN <<(<<ORP_FIELD_ID_SENT_COUNT>> \o FmtInt(m.sentCount))>> ELSE <<>>)
    \o (IF IsSync(m) /\ m.receivedCount >= 0
        THEN <<(<<ORP_FIELD_ID_RECV_COUNT>> \o FmtInt(m.receivedCount))>> ELSE <<>>)

\* the first n elements of s, all of s when it is not longer
Clip(s, n) == IF Len(s) <= n THEN s ELSE Take(s, n)

\* the packet after its four fixed bytes
VarLength(pkt) == Drop(pkt, ORP_OFFSET_VARLENGTH)

(***************************************************************************)
(* C34, under SpecCodec: in every encoded packet exactly one comma         *)
(* separates adjacent variable-length fields: the variable-length part is  *)
(* the emitted fields joined by single commas (cut at the end of the       *)
(* buffer when the data does not fit), so there is no comma before the     *)
(* first emitted field, none after the last one, and no two adjacent       *)
(* commas outside the data payload.                                        *)
(***************************************************************************)
Thm_C34 ==
    Encoded =>
        /\ VarLength(cEnc.pkt)
             = Clip(JoinTexts(FieldTexts(cMsg)), CodecBufLen - ORP_OFFSET_VARLENGTH)
        /\ FieldTexts(cMsg) # <<>> =>
              VarLength(cEnc.pkt)[1] # ORP_VARLENGTH_SEPARATOR

\* a SYN without timestamp and without MTU, with path "/a", data "x;" and a
\* sent count of 10 was encoded: P/a,Dx;,S10
Wit_C34 ==
    /\ Encoded
    /\ cMsg.type = ORP_SYNC_SYN
    /\ cMsg.timestamp = ORP_TIMESTAMP_INVALID
    /\ cMsg.mtu < 0
    /\ VarLength(cEnc.pkt) = <<80, 47, 97, 44, 68, 120, 59, 44, 83, 49, 48>>

\* CRC-16/CCITT bit by bit, most significant bit first: n shifts of the
\* register r, the polynomial 0x1021 folded in for every bit shifted out
RECURSIVE CrcShift(_, _)
CrcShift(r, n) ==
    IF n = 0 THEN r
    ELSE CrcShift(IF r >= 32768
                  THEN Xor16((r * 2) % 65536, CRC_POLY_CCITT)
                  ELSE (r * 2) % 65536,
                  n - 1)

\* the byte enters at the top of the register; no final XOR
CrcBitwise(crc, c) == CrcShift(Xor16(crc, c * 256), 8)

(***************************************************************************)
(* C35, under SpecCrc: for every 16-bit crc and every byte c, the          *)
(* table-driven _crc_ccitt_update(crc, c) equals the bitwise CRC-16/CCITT  *)
(* update (polynomial 0x1021, most significant bit first, no final XOR).   *)
(***************************************************************************)
Thm_C35 ==
    xPhase = "updated" =>
        /\ xOut = CrcBitwise(xCrc, xByte)
        /\ xOut \in 0..65535

\* the update of the initial crc 0xFFFF with the byte '1' returned 0xC782
Wit_C35 ==
    /\ xPhase = "updated"
    /\ xCrc = CRC_CRC16_CCITT_INIT
    /\ xByte = 49
    /\ xOut = 51074

(***************************************************************************)
(* C37, under SpecPipe: whenever the receive pipeline calls the decoder,   *)
(* the packet length it passes is less than the capacity of the receive    *)
(* packet buffer, so that the NUL the decoder writes at pktBuf[pktLen]     *)
(* lies inside the buffer.                                                 *)
(***************************************************************************)
Thm_C37 ==
    \A i \in 1..Len(pipe.decoded) :
        /\ pipe.decoded[i] >= 0
        /\ pipe.decoded[i] < RxPacketSize
        /\ pipe.decoded[i] + 1 \in 1..Len(pipe.rxPacketBuf)

\* the frame of a payload one byte shorter than the packet buffer was
\* deframed and its RxPacketSize - 1 bytes handed to the decoder
Wit_C37 ==
    /\ pScen.kind = "long"
    /\ pScen.payloadLen = RxPacketSize - 1
    /\ Len(pipe.decoded) > 0
    /\ pipe.decoded[1] = RxPacketSize - 1

\* a setup has left a file name, and the file opens, so that every write
\* succeeds
TransferOpen == fLast.base >= 0 /\ file.FileName # <<>> /\ file.openOk

\* the bytes appended to the output file since the setup
AppendedSinceSetup == Len(file.disk) - fLast.base

(***************************************************************************)
(* C39, as stated: after a setup with a non-empty file name, provided      *)
(* every write succeeds, the received-bytes counter equals the number of   *)
(* bytes appended to the output file since the setup plus the number of    *)
(* bytes in the staging buffer, in auto and in manual mode, for every      *)
(* sequence of cached packets and flushes.                                 *)
(***************************************************************************)
Claim_C39 ==
    TransferOpen =>
        file.ReceivedFileBytes = AppendedSinceSetup + file.IncomingFileDataLen

\* in manual mode a second packet was cached before the first was flushed:
\* two bytes counted, one of them staged, none in the file
Wit_C39 ==
    /\ TransferOpen
    /\ fLast.op = "cache"
    /\ ~fLast.pre.AutoMode
    /\ fLast.pre.IncomingFileDataLen = 1
    /\ fLast.pre.ReceivedFileBytes = 1
    /\ file.ReceivedFileBytes = 2
    /\ file.IncomingFileDataLen = 1
    /\ AppendedSinceSetup = 0

\* orp_Respond was called for a FILE_DATA response with status OK
AcceptsData == yCall.type = ORP_RESP_FILE_DATA /\ yCall.status = LE_OK

(***************************************************************************)
(* C40, under SpecRespond: orp_Respond for a FILE_DATA response with a     *)
(* status other than OK, or for any other response type, leaves the output *)
(* file, the staging buffer and the file-transfer counters unchanged.      *)
(***************************************************************************)
Thm_C40 ==
    (yPhase = "responded" /\ ~AcceptsData) =>
        /\ yOut.fs.disk = yFs.disk
        /\ yOut.fs.IncomingFileData = yFs.IncomingFileData
        /\ yOut.fs.IncomingFileDataLen = yFs.IncomingFileDataLen
        /\ yOut.fs.ReceivedFileBytes = yFs.ReceivedFileBytes
        /\ yOut.fs.ExpectedFileBytes = yFs.ExpectedFileBytes
        /\ yOut.fs = yFs

\* in manual mode with a byte staged, a FILE_DATA response with status
\* LE_FAULT was sent and the byte is still staged
Wit_C40 ==
    /\ yPhase = "responded"
    /\ yCall = [type |-> ORP_RESP_FILE_DATA, status |-> LE_FAULT]
    /\ ~yFs.AutoMode
    /\ yFs.FileName # <<>>
    /\ yFs.openOk
    /\ yFs.IncomingFileDataLen = 1
    /\ yOut.fs.IncomingFileData = <<97>>
    /\ yOut.fs.disk = <<>>
    /\ Len(yOut.sent) = 1

=============================================================================
